---- MODULE Spec2Model ----
(***************************************************************************)
(* Group-topology and playback-state synchronisation of the Sonos media    *)
(* player platform (homeassistant/components/sonos/media_player.py).       *)
(*                                                                         *)
(* Program state: the fields of every SonosEntity, the pending             *)
(* _async_handle_group_event jobs, the asyncio topology_condition (its     *)
(* lock and its waiters) and the position of every running service call.   *)
(* Device state (what the players themselves hold) is the environment.     *)
(***************************************************************************)
EXTENDS Integers, Sequences, FiniteSets, TLC

\* ------------------------------------------------------------------ bounds
NumEntities == 3        \* registered players
NumTasks == 2           \* service calls that may be in progress together
MaxOps == 2             \* service calls started in one behaviour
MaxFaults == 1          \* device commands that fault in one behaviour
MaxOutages == 1         \* times a player becomes unreachable
MaxTime == 60           \* clock range, in tenths of a second
NumListened == 1        \* players whose playback is followed

\* ------------------------------------------------------- program constants
DriftThreshold == 15    \* 1.5 s, in tenths of a second

Entities == 1..NumEntities
Tasks == 1..NumTasks
None == 0               \* a missing entity reference (Python None)
Null == -1              \* a missing number (Python None)
Free == 0               \* topology_condition's lock is not held
TickSteps == {5, 10, 40}

VARIABLES
    \* SonosEntity fields
    coordinator, sonos_group, status, shuffle, media_duration, media_position,
    media_position_updated_at, media_title, source_name, player_volume,
    available, receives_events, subscriptions, soco_snapshot, snapshot_group,
    \* pysonos' cached zone group state of every player
    zgs_cache,
    \* the players themselves
    devCoord, devStatus, devEvt, reachable,
    \* the event loop: pending topology jobs, the condition's lock, service calls
    jobs, lock, tasks,
    \* wall clock and what a behaviour may still spend: the kinds of service call
    \* it may start, in order, device faults, outages, and how many service calls
    \* may be in progress together
    now, budget

entityVars == <<coordinator, sonos_group, soco_snapshot, snapshot_group>>
mediaVars == <<status, shuffle, media_duration, media_position,
               media_position_updated_at, media_title, source_name>>
availVars == <<available, receives_events, subscriptions, player_volume>>
devVars == <<devCoord, devStatus, devEvt, reachable>>
vars == <<coordinator, sonos_group, status, shuffle, media_duration, media_position,
          media_position_updated_at, media_title, source_name, player_volume,
          available, receives_events, subscriptions, soco_snapshot, snapshot_group,
          zgs_cache, devCoord, devStatus, devEvt, reachable, jobs, lock, tasks,
          now, budget>>

\* ------------------------------------------------------- sequence helpers
SeqToSet(s) == {s[i] : i \in DOMAIN s}

Contains(s, x) == \E i \in DOMAIN s : s[i] = x

MinOf(S) == CHOOSE x \in S : \A y \in S : x <= y

RECURSIVE SortedSeq(_)
SortedSeq(S) == IF S = {} THEN <<>>
                ELSE LET m == MinOf(S) IN <<m>> \o SortedSeq(S \ {m})

\* ------------------------------------------------------------ the players
\* The group a player reports: its coordinator first, then the other members.
RealGroup(dc, e) ==
    <<dc[e]>> \o SortedSeq({x \in Entities : dc[x] = dc[e] /\ x # dc[e]})

\* A player leaves its group; the members a coordinator leaves behind stay together.
DevLeave(dc, e) ==
    LET others == {x \in Entities : x # e /\ dc[x] = e}
    IN  IF dc[e] # e THEN [dc EXCEPT ![e] = e]
        ELSE IF others = {} THEN dc
        ELSE [x \in Entities |-> IF x \in others THEN MinOf(others) ELSE dc[x]]

\* slave.soco.join(master.soco): the slave leaves its group and enters the master's.
DevJoin(dc, s, m) ==
    LET d1 == DevLeave(dc, s) IN [d1 EXCEPT ![s] = d1[m]]

\* The players whose reported group differs between two device topologies.
Changed(dc1, dc2) == {x \in Entities : RealGroup(dc1, x) # RealGroup(dc2, x)}

\* Every partition of the players into groups, each with one coordinator.
Topologies == {dc \in [Entities -> Entities] : \A e \in Entities : dc[dc[e]] = dc[e]}

\* The device topology in which every player of S follows c and the others are alone.
Grouped(c, S) == [e \in Entities |-> IF e \in S THEN c ELSE e]

\* The topologies a behaviour starts from: all alone, 1 with follower 2, 1 a
\* follower of 3, 1 with every other player as follower.
StartTopologies ==
    {Grouped(1, {}), Grouped(1, {2}), Grouped(3, {1}), Grouped(1, Entities)}

\* ----------------------------------------------------------- device faults
UPNP_ERRORS_TO_IGNORE == {"701", "711", "712"}

\* What a device command may raise: SoCoUPnPException with an error code, or
\* another SoCoException.
UPnPFaults == UPNP_ERRORS_TO_IGNORE \cup {"800"}
DeviceFaults == UPnPFaults \cup {"SoCoException"}

\* The wrapped entity methods, and the error codes their soco_error is given.
IgnoringCommands == {"media_play", "media_stop", "media_pause", "media_next_track",
                     "media_previous_track", "media_seek", "set_shuffle"}
WrappedCommands == IgnoringCommands
                   \cup {"volume_up", "volume_down", "set_volume_level", "mute_volume",
                         "select_source", "turn_on", "turn_off", "clear_playlist",
                         "join", "unjoin", "snapshot", "restore"}

ErrorCodes(funct) == IF funct \in IgnoringCommands THEN UPNP_ERRORS_TO_IGNORE ELSE {}

\* soco_error(errorcodes): what the wrapper does with a fault of the wrapped
\* function. It returns None in every case and raises nothing.
soco_error(errorcodes, fault) ==
    [returns |-> "None", raised |-> FALSE,
     logged |-> IF fault \in UPnPFaults
                THEN ~(errorcodes # {} /\ fault \in errorcodes)
                ELSE TRUE]

\* ---------------------------------------------------------- entity views
is_coordinator(e) == coordinator[e] = None

\* soco_coordinator: the entity a group property or command is served by.
soco_coordinator(e) == IF is_coordinator(e) THEN e ELSE coordinator[e]

StateOf(st) ==
    IF st \in {"PAUSED_PLAYBACK", "STOPPED"} THEN "paused"
    ELSE IF st \in {"PLAYING", "TRANSITIONING"} THEN "playing"
    ELSE IF st = "OFF" THEN "off"
    ELSE "idle"

state(e) == StateOf(status[soco_coordinator(e)])

\* --------------------------------------------------------- topology store
\* _async_regroup: the entities of the reported uids, in order.
RegroupList(group) == SelectSeq(group, LAMBDA uid : uid \in Entities)

\* A regroup that resets the pointer of the applying entity only.
RegroupOwnPointer(coord, self, group) == [coord EXCEPT ![self] = None]

\* _async_regroup: the coordinator pointers after self applied `group`.
RegroupCoordinator(coord, self, group) ==
    [e \in Entities |->
        IF e \in SeqToSet(Tail(group)) THEN self
        ELSE IF e = self THEN None
        ELSE coord[e]]

\* _async_regroup: the membership lists after self applied `group`.
RegroupGroups(groups, self, group) ==
    [e \in Entities |->
        IF e = self \/ e \in SeqToSet(Tail(group)) THEN RegroupList(group)
        ELSE groups[e]]

\* topology_condition.notify_all(): every waiter is woken and must take the lock
\* again. A woken waiter's record keeps the list whose application woke it (by).
NotifyAll(tk, group) ==
    [t \in Tasks |-> IF tk[t].pc \in {"waiting", "woken"}
                     THEN [tk[t] EXCEPT !.pc = "woken", !.by = group] ELSE tk[t]]

\* History kept in the records of the calls that are inside wait_for_groups: a
\* topology field was written by something other than an application (by is
\* dropped), and, when it was the executor job of another call that issued device
\* commands, the call was not alone (disturbed).
InWait(rec) == rec.pc \in {"waiting", "woken", "timedout"}

Touched(tk) ==
    [t \in Tasks |-> IF InWait(tk[t]) THEN [tk[t] EXCEPT !.by = <<>>] ELSE tk[t]]

Disturbed(tk, log) ==
    [t \in Tasks |-> IF InWait(tk[t])
                     THEN [tk[t] EXCEPT !.by = <<>>, !.disturbed = @ \/ log # <<>>]
                     ELSE tk[t]]

\* _get_soco_group: the player's own view, served from pysonos' cache when it holds
\* one (the cache may also have expired); an unreachable player answers nothing.
PollResults(e) ==
    (IF zgs_cache[e] # <<>> THEN {zgs_cache[e]} ELSE {})
    \cup (IF reachable[e] THEN {RealGroup(devCoord, e)} ELSE {})
    \cup (IF zgs_cache[e] = <<>> /\ ~reachable[e] THEN {<<e>>} ELSE {})

\* A handler that applies the resolved group whoever heads it.
HandledByAnyone(e, payload) ==
    \E group \in (IF payload # <<>> THEN {payload} ELSE PollResults(e)) :
        /\ zgs_cache' = IF payload # <<>> \/ (group = <<e>> /\ ~reachable[e]) THEN zgs_cache
                        ELSE [zgs_cache EXCEPT ![e] = group]
        /\ coordinator' = RegroupCoordinator(coordinator, e, group)
        /\ sonos_group' = RegroupGroups(sonos_group, e, group)
        /\ tasks' = NotifyAll(tasks, RegroupList(group))

\* A handler that applies the group and notifies nobody.
HandledQuietly(e, payload) ==
    \E group \in (IF payload # <<>> THEN {payload} ELSE PollResults(e)) :
        /\ zgs_cache' = IF payload # <<>> \/ (group = <<e>> /\ ~reachable[e]) THEN zgs_cache
                        ELSE [zgs_cache EXCEPT ![e] = group]
        /\ IF e = group[1]
           THEN /\ coordinator' = RegroupCoordinator(coordinator, e, group)
                /\ sonos_group' = RegroupGroups(sonos_group, e, group)
                /\ UNCHANGED tasks
           ELSE UNCHANGED <<coordinator, sonos_group, tasks>>

\* _async_handle_group_event with the lock held: the group is resolved and, when
\* this entity is its first entry, applied, and the waiters are notified.
Handled(e, payload) ==
    \E group \in (IF payload # <<>> THEN {payload} ELSE PollResults(e)) :
        /\ zgs_cache' = IF payload # <<>> \/ (group = <<e>> /\ ~reachable[e]) THEN zgs_cache
                        ELSE [zgs_cache EXCEPT ![e] = group]
        /\ IF e = group[1]
           THEN /\ coordinator' = RegroupCoordinator(coordinator, e, group)
                /\ sonos_group' = RegroupGroups(sonos_group, e, group)
                /\ tasks' = NotifyAll(tasks, RegroupList(group))
           ELSE UNCHANGED <<coordinator, sonos_group, tasks>>

\* update_groups(event): a notification of the topology channel reaches entity e.
\* kind "group": it carries the member list; "empty": the attribute is there but
\* empty; "other": it carries no member list at all. The job it schedules runs at
\* once when the lock is free and queues for the lock otherwise.
DeliverGroupEvent(e, kind) ==
    /\ subscriptions[e] /\ reachable[e] /\ devEvt[e]
    /\ receives_events' = [receives_events EXCEPT ![e] = TRUE]
    /\ devEvt' = [devEvt EXCEPT ![e] = FALSE]
    /\ LET payload == IF kind = "group" THEN RealGroup(devCoord, e) ELSE <<>>
       IN  IF kind = "other"
           THEN UNCHANGED <<coordinator, sonos_group, tasks, zgs_cache, jobs>>
           ELSE IF lock = Free
           THEN Handled(e, payload) /\ UNCHANGED jobs
           ELSE /\ jobs' = jobs \cup {[ent |-> e, payload |-> payload]}
                /\ UNCHANGED <<coordinator, sonos_group, tasks, zgs_cache>>
    /\ UNCHANGED <<soco_snapshot, snapshot_group, mediaVars, available, subscriptions,
                   player_volume, devCoord, devStatus, reachable, lock, now, budget>>

\* A queued _async_handle_group_event job is given the lock.
HandleGroupEvent(j) ==
    /\ j \in jobs
    /\ lock = Free
    /\ Handled(j.ent, j.payload)
    /\ jobs' = jobs \ {j}
    /\ UNCHANGED <<soco_snapshot, snapshot_group, mediaVars, availVars, devVars,
                   lock, now, budget>>

\* ------------------------------------------------------------ media state
Abs(x) == IF x < 0 THEN -x ELSE x

\* _timespan_secs: "H:MM:SS" as its fields; '' and 'NOT_IMPLEMENTED' are <<>>.
RECURSIVE _timespan_secs(_)
_timespan_secs(timespan) ==
    IF timespan = <<>> THEN Null
    ELSE IF Len(timespan) = 1 THEN timespan[1]
    ELSE 60 * _timespan_secs(SubSeq(timespan, 1, Len(timespan) - 1))
         + timespan[Len(timespan)]

\* A drift test that takes a difference of exactly the threshold for a jump.
PositionJumpedAtLeast(pos, updated_at, rel_time, t) ==
    /\ rel_time # Null /\ pos # Null
    /\ Abs((10 * pos + (t - updated_at)) - 10 * rel_time) >= DriftThreshold

\* update_media_music, "position jumped?": positions are seconds, the clock
\* counts tenths of a second.
PositionJumped(pos, updated_at, rel_time, t) ==
    /\ rel_time # Null /\ pos # Null
    /\ Abs((10 * pos + (t - updated_at)) - 10 * rel_time) > DriftThreshold

\* update_media_music: whether the (position, timestamp) pair is overwritten.
UpdatePosition(status_changed, pos, updated_at, rel_time, t) ==
    \/ status_changed
    \/ rel_time = Null /\ pos # Null
    \/ rel_time # Null /\ pos = Null
    \/ PositionJumped(pos, updated_at, rel_time, t)

\* The media fields of entity e as a record.
MediaOf(e) ==
    [status |-> status[e], shuffle |-> shuffle[e], duration |-> media_duration[e],
     position |-> media_position[e], updated_at |-> media_position_updated_at[e],
     title |-> media_title[e], source |-> source_name[e]]

\* update_media_linein
update_media_linein(m, source) ==
    [m EXCEPT !.duration = Null, !.position = Null, !.updated_at = Null,
              !.title = "None", !.source = source]

\* update_media_radio: no duration and no position; the title comes from the
\* track, the source name from the favourite that matches the stream.
update_media_radio(m, in) ==
    [m EXCEPT !.duration = Null, !.position = Null, !.updated_at = Null,
              !.title = in.title, !.source = in.fav]

\* An update_media_music that overwrites the position and keeps the timestamp.
PositionWithoutTimestamp(m, update_media_position, in, t) ==
    LET rel_time == _timespan_secs(in.rel)
        upd == UpdatePosition(update_media_position, m.position, m.updated_at, rel_time, t)
    IN  [m EXCEPT !.duration = _timespan_secs(in.duration),
                  !.position = IF upd THEN rel_time ELSE @,
                  !.title = in.title, !.source = "None"]

\* update_media_music
update_media_music(m, update_media_position, in, t) ==
    LET rel_time == _timespan_secs(in.rel)
        upd == UpdatePosition(update_media_position, m.position, m.updated_at, rel_time, t)
    IN  [m EXCEPT !.duration = _timespan_secs(in.duration),
                  !.position = IF upd THEN rel_time ELSE @,
                  !.updated_at = IF upd THEN t ELSE @,
                  !.title = in.title, !.source = "None"]

\* An update_media that ignores no transport state.
NothingIgnored(new_status) == FALSE

\* Whether update_media goes on after reading the transport state.
IgnoredStatus(new_status) == new_status = "TRANSITIONING"

\* update_media: the media fields of an entity after one transport update.
update_media(m, new_status, in, t) ==
    IF IgnoredStatus(new_status) THEN m
    ELSE LET m1 == [m EXCEPT !.shuffle = in.shuffle]
             m2 == CASE in.kind = "tv" -> update_media_linein(m1, "TV")
                      [] in.kind = "linein" -> update_media_linein(m1, "Line-in")
                      [] in.kind = "radio" -> update_media_radio(m1, in)
                      [] OTHER -> update_media_music(m1, new_status # m.status, in, t)
         IN  [m2 EXCEPT !.status = new_status]

\* Assign a media record to entity e.
SetMedia(e, m) ==
    /\ status' = [status EXCEPT ![e] = m.status]
    /\ shuffle' = [shuffle EXCEPT ![e] = m.shuffle]
    /\ media_duration' = [media_duration EXCEPT ![e] = m.duration]
    /\ media_position' = [media_position EXCEPT ![e] = m.position]
    /\ media_position_updated_at' = [media_position_updated_at EXCEPT ![e] = m.updated_at]
    /\ media_title' = [media_title EXCEPT ![e] = m.title]
    /\ source_name' = [source_name EXCEPT ![e] = m.source]

\* What a player may report about its media: the topology specification lets it
\* play from line-in only, the playback specification draws from all kinds.
LineInInputs ==
    {[kind |-> "linein", shuffle |-> FALSE, title |-> "None", fav |-> "None",
      duration |-> <<>>, rel |-> <<>>]}

Timespans == {<<>>, <<0, 0, 10>>, <<0, 0, 11>>, <<0, 0, 12>>, <<0, 0, 20>>}

MediaInputs ==
    LineInInputs
    \cup {[kind |-> "tv", shuffle |-> FALSE, title |-> "None", fav |-> "None",
           duration |-> <<>>, rel |-> <<>>]}
    \cup {[kind |-> "radio", shuffle |-> FALSE, title |-> "Station", fav |-> f,
           duration |-> <<>>, rel |-> <<>>] : f \in {"None", "Fav"}}
    \cup {[kind |-> "music", shuffle |-> sh, title |-> "Song", fav |-> "None",
           duration |-> <<0, 3, 0>>, rel |-> r] : sh \in BOOLEAN, r \in Timespans}

\* The transport states a poll of the player may return.
TransportReads(e) == {devStatus[e], "TRANSITIONING"}

\* update_media as the handler of a transport notification of entity e.
UpdateMedia(e, inputs) ==
    /\ subscriptions[e] /\ reachable[e]
    /\ \E new_status \in TransportReads(e), in \in inputs :
        SetMedia(e, update_media(MediaOf(e), new_status, in, now))
    /\ UNCHANGED <<entityVars, availVars, zgs_cache, devVars, jobs, lock, tasks,
                   now, budget>>

\* update_volume as the handler of a rendering notification; the players are
\* turned from 20 to 40.
Volumes == {40}

\* A rendering notification that counts as a sign that events arrive.
UpdateVolumeAsEvent(e) ==
    /\ subscriptions[e] /\ reachable[e]
    /\ \E v \in Volumes : player_volume' = [player_volume EXCEPT ![e] = v]
    /\ receives_events' = [receives_events EXCEPT ![e] = TRUE]
    /\ UNCHANGED <<entityVars, mediaVars, available, subscriptions,
                   zgs_cache, devVars, jobs, lock, tasks, now, budget>>

UpdateVolume(e) ==
    /\ subscriptions[e] /\ reachable[e]
    /\ \E v \in Volumes : player_volume' = [player_volume EXCEPT ![e] = v]
    /\ UNCHANGED <<entityVars, mediaVars, available, receives_events, subscriptions,
                   zgs_cache, devVars, jobs, lock, tasks, now, budget>>

\* The player's transport state changes on the player (a button, another controller).
DevTransport(e) ==
    /\ \E st \in {"PLAYING", "PAUSED_PLAYBACK", "STOPPED"} :
        /\ st # devStatus[e]
        /\ devStatus' = [devStatus EXCEPT ![e] = st]
    /\ UNCHANGED <<entityVars, mediaVars, availVars, zgs_cache, devCoord, devEvt,
                   reachable, jobs, lock, tasks, now, budget>>

\* media_play and media_pause, under soco_coordinator and
\* soco_error(UPNP_ERRORS_TO_IGNORE): the command goes to the player of the
\* entity the pointer names, or of the entity itself when its pointer is nil. A
\* player that does not lead its group refuses it, and the error is swallowed.
PlaybackCommands == {"PLAYING", "PAUSED_PLAYBACK"}

MediaCommand(e, st) ==
    /\ st \in PlaybackCommands
    /\ LET target == soco_coordinator(e)
       IN  devStatus' = IF devCoord[target] = target
                        THEN [devStatus EXCEPT ![target] = st] ELSE devStatus
    /\ UNCHANGED <<entityVars, mediaVars, availVars, zgs_cache, devCoord, devEvt,
                   reachable, jobs, lock, tasks, now, budget>>

\* Wall-clock time passes.
Tick ==
    /\ \E d \in TickSteps : now + d <= MaxTime /\ now' = now + d
    /\ UNCHANGED <<entityVars, mediaVars, availVars, zgs_cache, devVars, jobs, lock,
                   tasks, budget>>

\* ------------------------------------------------------- the refresh cycle
\* A player drops off the network, or comes back.
DevReachability(e) ==
    /\ IF reachable[e]
       THEN /\ budget.outages > 0
            /\ budget' = [budget EXCEPT !.outages = @ - 1]
       ELSE UNCHANGED budget
    /\ reachable' = [reachable EXCEPT ![e] = ~@]
    /\ UNCHANGED <<entityVars, mediaVars, availVars, zgs_cache, devCoord, devStatus,
                   devEvt, jobs, lock, tasks, now>>

\* update(), the player was reachable at the last cycle and is not now: the
\* subscriptions are released and the local state is reset.
UpdateLost(e) ==
    /\ available[e] /\ ~reachable[e]
    /\ available' = [available EXCEPT ![e] = FALSE]
    /\ subscriptions' = [subscriptions EXCEPT ![e] = FALSE]
    /\ player_volume' = [player_volume EXCEPT ![e] = Null]
    /\ coordinator' = [coordinator EXCEPT ![e] = None]
    /\ SetMedia(e, [MediaOf(e) EXCEPT !.status = "OFF", !.duration = Null,
                                      !.position = Null, !.updated_at = Null,
                                      !.title = "None", !.source = "None"])
    /\ tasks' = Touched(tasks)
    /\ UNCHANGED <<sonos_group, soco_snapshot, snapshot_group, receives_events,
                   zgs_cache, devVars, jobs, lock, now, budget>>

\* update(), the player is back: _set_basic_information and
\* _subscribe_to_player_events, which has every entity rebuild its group.
UpdateFound(e) ==
    /\ ~available[e] /\ reachable[e]
    /\ available' = [available EXCEPT ![e] = TRUE]
    /\ \E sh \in BOOLEAN : shuffle' = [shuffle EXCEPT ![e] = sh]
    /\ \E v \in Volumes : player_volume' = [player_volume EXCEPT ![e] = v]
    /\ receives_events' = [receives_events EXCEPT ![e] = FALSE]
    /\ jobs' = jobs \cup {[ent |-> x, payload |-> <<>>] : x \in Entities}
    /\ subscriptions' = [subscriptions EXCEPT ![e] = TRUE]
    /\ devEvt' = [devEvt EXCEPT ![e] = TRUE]
    /\ UNCHANGED <<entityVars, status, media_duration, media_position,
                   media_position_updated_at, media_title, source_name, zgs_cache,
                   devCoord, devStatus, reachable, lock, tasks, now, budget>>

\* update(), the player is available and receives no events: poll the topology,
\* the volume and, on a coordinator, the transport state.
UpdatePoll(e, inputs) ==
    /\ available[e] /\ reachable[e] /\ ~receives_events[e]
    /\ jobs' = jobs \cup {[ent |-> e, payload |-> <<>>]}
    /\ \E v \in Volumes : player_volume' = [player_volume EXCEPT ![e] = v]
    /\ IF is_coordinator(e)
       THEN \E new_status \in TransportReads(e), in \in inputs :
               SetMedia(e, update_media(MediaOf(e), new_status, in, now))
       ELSE UNCHANGED mediaVars
    /\ UNCHANGED <<entityVars, available, receives_events, subscriptions, zgs_cache,
                   devVars, lock, tasks, now, budget>>

\* --------------------------------------------------- group mutation engine
\* What a helper run in the executor reads and writes: entity fields, the players
\* and the log of the device commands it issued. F holds the players whose
\* commands fault (SoCoException) during the run.
Cur ==
    [coordinator |-> coordinator, devCoord |-> devCoord, devStatus |-> devStatus,
     soco_snapshot |-> soco_snapshot, snapshot_group |-> snapshot_group, log |-> <<>>]

\* A logged device command: arg is the master of a join and, for a restore, the
\* coordinator pointer the entity had when it was issued.
Cmd(c, e, a, ok) == [cmd |-> c, ent |-> e, arg |-> a, ok |-> ok]

\* unjoin, under soco_error: a fault leaves the pointer as it is.
unjoin(E, e, F) ==
    IF e \in F
    THEN [E EXCEPT !.log = Append(@, Cmd("unjoin", e, None, FALSE))]
    ELSE [E EXCEPT !.devCoord = DevLeave(@, e), !.coordinator[e] = None,
                   !.log = Append(@, Cmd("unjoin", e, None, TRUE))]

\* join, the loop over the slaves: a fault ends the loop and join returns None (<<>>).
RECURSIVE JoinSlaves(_, _, _, _, _)
JoinSlaves(E, self, slaves, group, F) ==
    IF slaves = <<>> THEN [E |-> E, group |-> group]
    ELSE LET slave == Head(slaves) IN
         IF slave = self THEN JoinSlaves(E, self, Tail(slaves), group, F)
         ELSE IF slave \in F
         THEN [E |-> [E EXCEPT !.log = Append(@, Cmd("join", slave, self, FALSE))],
               group |-> <<>>]
         ELSE JoinSlaves([E EXCEPT !.devCoord = DevJoin(@, slave, self),
                                   !.coordinator[slave] = self,
                                   !.log = Append(@, Cmd("join", slave, self, TRUE))],
                         self, Tail(slaves),
                         IF Contains(group, slave) THEN group ELSE Append(group, slave), F)

\* join: a follower unjoins first and starts from [self].
join(E, self, slaves, F) ==
    IF E.coordinator[self] # None
    THEN JoinSlaves(unjoin(E, self, F), self, slaves, <<self>>, F)
    ELSE JoinSlaves(E, self, slaves, sonos_group[self], F)

\* An unjoin order that takes the entities as the service call lists them.
UnjoinAsListed(E, entities) == entities

\* _unjoin_all: the slaves first, then the coordinators.
UnjoinOrder(E, entities) ==
    SelectSeq(entities, LAMBDA e : E.coordinator[e] # None)
    \o SelectSeq(entities, LAMBDA e : E.coordinator[e] = None)

RECURSIVE UnjoinEach(_, _, _)
UnjoinEach(E, entities, F) ==
    IF entities = <<>> THEN E
    ELSE UnjoinEach(unjoin(E, Head(entities), F), Tail(entities), F)

_unjoin_all(E, entities, F) == UnjoinEach(E, UnjoinOrder(E, entities), F)

\* snapshot, under soco_error: the Snapshot object is assigned before it captures.
snapshot(E, e, with_group, F) ==
    IF e \in F
    THEN [E EXCEPT !.soco_snapshot[e] = "EMPTY",
                   !.log = Append(@, Cmd("snapshot", e, None, FALSE))]
    ELSE [E EXCEPT !.soco_snapshot[e] = E.devStatus[e],
                   !.snapshot_group[e] = IF with_group THEN sonos_group[e] ELSE <<>>,
                   !.log = Append(@, Cmd("snapshot", e, None, TRUE))]

RECURSIVE _snapshot_all(_, _, _, _)
_snapshot_all(E, entities, with_group, F) ==
    IF entities = <<>> THEN E
    ELSE _snapshot_all(snapshot(E, Head(entities), with_group, F), Tail(entities),
                       with_group, F)

\* A restore that drops the snapshot without reapplying it.
DropSnapshot(E, e, F) ==
    [E EXCEPT !.soco_snapshot[e] = "None",
              !.snapshot_group[e] = <<>>,
              !.log = IF E.soco_snapshot[e] = "None" THEN @
                      ELSE Append(@, Cmd("restore", e, E.coordinator[e], e \notin F))]

\* restore: reapplies the captured state when there is one and the player takes
\* it; the snapshot and its group are dropped in every case.
restore(E, e, F) ==
    LET snap == E.soco_snapshot[e]
        ok == snap \notin {"None", "EMPTY"} /\ e \notin F
    IN  [E EXCEPT !.devStatus[e] = IF ok THEN snap ELSE @,
                  !.soco_snapshot[e] = "None",
                  !.snapshot_group[e] = <<>>,
                  !.log = IF snap = "None" THEN @
                          ELSE Append(@, Cmd("restore", e, E.coordinator[e], ok))]

\* media_pause on a coordinator, under soco_error.
media_pause(E, e, F) ==
    IF e \in F
    THEN [E EXCEPT !.log = Append(@, Cmd("pause", e, None, FALSE))]
    ELSE [E EXCEPT !.devStatus[e] = "PAUSED_PLAYBACK",
                   !.log = Append(@, Cmd("pause", e, None, TRUE))]

\* A first loop that pauses every playing entity, the followers included.
RECURSIVE PausePlaying(_, _, _)
PausePlaying(E, entities, F) ==
    IF entities = <<>> THEN E
    ELSE LET e == Head(entities) IN
         PausePlaying(IF StateOf(status[e]) = "playing" THEN media_pause(E, e, F) ELSE E,
                      Tail(entities), F)

\* _restore_groups, first loop: pause every playing coordinator.
RECURSIVE PauseCoordinators(_, _, _)
PauseCoordinators(E, entities, F) ==
    IF entities = <<>> THEN E
    ELSE LET e == Head(entities) IN
         PauseCoordinators(
             IF E.coordinator[e] = None /\ StateOf(status[e]) = "playing"
             THEN media_pause(E, e, F) ELSE E,
             Tail(entities), F)

\* _restore_groups, second loop: unjoin the slaves whose group changed.
RECURSIVE UnjoinChanged(_, _, _)
UnjoinChanged(E, slaves, F) ==
    IF slaves = <<>> THEN E
    ELSE LET e == Head(slaves) IN
         UnjoinChanged(IF E.snapshot_group[e] # sonos_group[e] THEN unjoin(E, e, F) ELSE E,
                       Tail(slaves), F)

\* A third loop that joins only the groups that are not there as snapshotted.
RECURSIVE RejoinChanged(_, _, _, _)
RejoinChanged(E, entities, groups, F) ==
    IF entities = <<>> THEN [E |-> E, groups |-> groups]
    ELSE LET e == Head(entities) IN
         IF /\ E.snapshot_group[e] # <<>> /\ E.snapshot_group[e][1] = e
            /\ E.snapshot_group[e] # sonos_group[e]
         THEN RejoinChanged(join(E, e, E.snapshot_group[e], F).E, Tail(entities),
                            Append(groups, E.snapshot_group[e]), F)
         ELSE RejoinChanged(E, Tail(entities), groups, F)

\* _restore_groups, third loop: every snapshotted coordinator joins its group again.
RECURSIVE Rejoin(_, _, _, _)
Rejoin(E, entities, groups, F) ==
    IF entities = <<>> THEN [E |-> E, groups |-> groups]
    ELSE LET e == Head(entities) IN
         IF E.snapshot_group[e] # <<>> /\ E.snapshot_group[e][1] = e
         THEN Rejoin(join(E, e, E.snapshot_group[e], F).E, Tail(entities),
                     Append(groups, E.snapshot_group[e]), F)
         ELSE Rejoin(E, Tail(entities), groups, F)

_restore_groups(E, entities, with_group, F) ==
    LET E1 == PauseCoordinators(E, entities, F)
    IN  IF with_group
        THEN Rejoin(UnjoinChanged(E1, SelectSeq(entities, LAMBDA e : E1.coordinator[e] # None), F),
                    entities, <<>>, F)
        ELSE [E |-> E1, groups |-> <<>>]

\* A restore order that takes the coordinators first.
CoordinatorsFirst(E, entities) ==
    SelectSeq(entities, LAMBDA e : E.coordinator[e] = None)
    \o SelectSeq(entities, LAMBDA e : E.coordinator[e] # None)

\* _restore_players: the slaves first, then the coordinators.
RestoreOrder(E, entities) ==
    SelectSeq(entities, LAMBDA e : E.coordinator[e] # None)
    \o SelectSeq(entities, LAMBDA e : E.coordinator[e] = None)

RECURSIVE RestoreEach(_, _, _)
RestoreEach(E, entities, F) ==
    IF entities = <<>> THEN E
    ELSE RestoreEach(restore(E, Head(entities), F), Tail(entities), F)

_restore_players(E, entities, F) == RestoreEach(E, RestoreOrder(E, entities), F)

\* An affected set that leaves the groups out.
SnapshotRequested(entities, with_group) == entities

\* snapshot_multi, "find all affected players".
SnapshotAffected(entities, with_group) ==
    entities \cup (IF with_group
                   THEN UNION {SeqToSet(sonos_group[e]) : e \in entities} ELSE {})

\* restore_multi, "find all affected players".
RestoreAffected(entities, with_group) ==
    LET have == {e \in entities : soco_snapshot[e] # "None"}
    IN  have \cup (IF with_group
                   THEN UNION {SeqToSet(snapshot_group[e]) : e \in have} ELSE {})

\* ------------------------------------------------------ convergence waiter
\* _test_groups over groups[i..]: "true", "false", or "raise" when a group is
\* None (join returned None) and group[0] is evaluated.
RECURSIVE TestFrom(_, _, _)
TestFrom(sg, groups, i) ==
    IF i > Len(groups) THEN "true"
    ELSE LET group == groups[i] IN
         IF group = <<>> THEN "raise"
         ELSE LET current_group == sg[group[1]] IN
              IF group[1] # current_group[1] THEN "false"
              ELSE IF SeqToSet(Tail(group)) # SeqToSet(Tail(current_group)) THEN "false"
              ELSE TestFrom(sg, groups, i + 1)

\* A test that compares the followers in order.
OrderedThere(sg, groups) ==
    IF \E i \in DOMAIN groups : groups[i] = <<>> THEN "raise"
    ELSE IF \A i \in DOMAIN groups : sg[groups[i][1]] = groups[i] THEN "true"
    ELSE "false"

\* A test that looks at the head of every target group and not at its followers.
HeadsThere(sg, groups) ==
    IF \E i \in DOMAIN groups : groups[i] = <<>> THEN "raise"
    ELSE IF \A i \in DOMAIN groups : sg[groups[i][1]][1] = groups[i][1] THEN "true"
    ELSE "false"

\* A test that finds every target group there at once.
AlwaysThere(sg, groups) == "true"

_test_groups(sg, groups) == TestFrom(sg, groups, 1)

\* A return from wait_for_groups that leaves the caches as they are.
KeptCache == zgs_cache

\* wait_for_groups, after the loop: every player's cached topology is dropped.
ClearedCache == [e \in Entities |-> <<>>]

\* The task after wait_for_groups returned: restore_multi goes on to restore the
\* players under the lock, the other calls are over.
AfterWait(rec, how) ==
    [rec EXCEPT !.how = how, !.pc = IF rec.op = "restore" THEN "restoring" ELSE "done"]

\* wait_for_groups entered by task t, which holds the lock, with the task record
\* and entity state the executor job left: the first test decides whether the
\* task goes on, waits (releasing the lock) or raises out of the service call.
EnterWait(t, rec, sg, tk) ==
    LET r == _test_groups(sg, rec.groups)
    IN  /\ tasks' = [tk EXCEPT ![t] =
                        CASE r = "raise" -> [rec EXCEPT !.pc = "raised"]
                          [] r = "true" -> AfterWait(rec, "converged")
                          [] OTHER -> [rec EXCEPT !.pc = "waiting"]]
        /\ lock' = IF r = "true" /\ rec.op = "restore" THEN t ELSE Free
        /\ zgs_cache' = IF r = "true" THEN ClearedCache ELSE zgs_cache

\* A waiter that goes on after its first notification without testing again.
WakeAndGo(t) ==
    /\ tasks[t].pc = "woken"
    /\ lock = Free
    /\ tasks' = [tasks EXCEPT ![t] = AfterWait(tasks[t], "converged")]
    /\ lock' = IF tasks[t].op = "restore" THEN t ELSE Free
    /\ zgs_cache' = ClearedCache
    /\ UNCHANGED <<entityVars, mediaVars, availVars, devVars, jobs, now, budget>>

\* topology_condition.wait() returns to a notified waiter once it holds the lock
\* again; the loop tests again and waits again when the groups are not there.
Wake(t) ==
    /\ tasks[t].pc = "woken"
    /\ lock = Free
    /\ EnterWait(t, tasks[t], sonos_group, tasks)
    /\ UNCHANGED <<entityVars, mediaVars, availVars, devVars, jobs, now, budget>>

\* A timer that never fires.
NoTimeout(t) == tasks[t].pc = "never" /\ UNCHANGED vars

\* async_timeout fires: the wait is cancelled and ends once the lock is held
\* again; TimeoutError is then logged, the caches are cleared and wait_for_groups
\* returns.
Timeout(t) ==
    /\ tasks[t].pc \in {"waiting", "woken"}
    /\ IF lock = Free
       THEN /\ tasks' = [tasks EXCEPT ![t] = AfterWait(tasks[t], "timeout")]
            /\ lock' = IF tasks[t].op = "restore" THEN t ELSE Free
            /\ zgs_cache' = ClearedCache
       ELSE /\ tasks' = [tasks EXCEPT ![t].pc = "timedout"]
            /\ UNCHANGED <<lock, zgs_cache>>
    /\ UNCHANGED <<entityVars, mediaVars, availVars, devVars, jobs, now, budget>>

\* The cancelled wait is given the lock.
TimedOut(t) ==
    /\ tasks[t].pc = "timedout"
    /\ lock = Free
    /\ tasks' = [tasks EXCEPT ![t] = AfterWait(tasks[t], "timeout")]
    /\ lock' = IF tasks[t].op = "restore" THEN t ELSE Free
    /\ zgs_cache' = ClearedCache
    /\ UNCHANGED <<entityVars, mediaVars, availVars, devVars, jobs, now, budget>>

\* ------------------------------------------------------------ service calls
IdleTask ==
    [op |-> "none", pc |-> "idle", master |-> None, entities |-> <<>>,
     with_group |-> FALSE, groups |-> <<>>, log |-> <<>>, how |-> "",
     by |-> <<>>, disturbed |-> FALSE,
     pre |-> [coordinator |-> <<>>, sonos_group |-> <<>>, soco_snapshot |-> <<>>,
              snapshot_group |-> <<>>, devStatus |-> <<>>]]

Over(t) == tasks[t].pc \in {"idle", "done", "raised"}

\* A service call arrives and is given the lowest free task.
CanCall(t, op) ==
    /\ Over(t)
    /\ \A u \in Tasks : u < t => ~Over(u)
    /\ budget.ops # <<>> /\ op \in Head(budget.ops)
    /\ Cardinality({u \in Tasks : ~Over(u)}) < budget.together

\* async with topology_condition: the call goes on at once when the lock is free
\* and queues for it otherwise.
Called(t, op, master, entities, with_group) ==
    /\ tasks' = [tasks EXCEPT ![t] =
                    [IdleTask EXCEPT !.op = op, !.master = master,
                                     !.pc = IF lock = Free THEN "exec" ELSE "acquire",
                                     !.entities = entities, !.with_group = with_group]]
    /\ lock' = IF lock = Free THEN t ELSE lock
    /\ budget' = [budget EXCEPT !.ops = Tail(@)]
    /\ UNCHANGED <<entityVars, mediaVars, availVars, zgs_cache, devVars, jobs, now>>

CallJoin(t, master, entities) ==
    CanCall(t, "join") /\ Called(t, "join", master, SortedSeq(entities), FALSE)

CallUnjoin(t, entities) ==
    CanCall(t, "unjoin") /\ Called(t, "unjoin", None, SortedSeq(entities), FALSE)

CallSnapshot(t, entities, with_group) ==
    CanCall(t, "snapshot") /\ Called(t, "snapshot", None,
                         SortedSeq(SnapshotAffected(entities, with_group)), with_group)

CallRestore(t, entities, with_group) ==
    CanCall(t, "restore") /\ Called(t, "restore", None,
                         SortedSeq(RestoreAffected(entities, with_group)), with_group)

\* A queued call that goes on without the lock being free.
Barge(t) ==
    /\ tasks[t].pc = "acquire"
    /\ lock' = t
    /\ tasks' = [tasks EXCEPT ![t].pc = "exec"]
    /\ UNCHANGED <<entityVars, mediaVars, availVars, zgs_cache, devVars, jobs, now, budget>>

\* The queued call is given the lock.
Acquire(t) ==
    /\ tasks[t].pc = "acquire"
    /\ lock = Free
    /\ lock' = t
    /\ tasks' = [tasks EXCEPT ![t].pc = "exec"]
    /\ UNCHANGED <<entityVars, mediaVars, availVars, zgs_cache, devVars, jobs, now, budget>>

\* The service calls a behaviour draws from: <<master, entities>> of sonos_join,
\* the entities of sonos_unjoin, <<entities, with_group>> of sonos_snapshot and
\* sonos_restore.
JoinCalls == {<<1, {2}>>, <<1, {1, 2, 3}>>, <<2, {3}>>}
UnjoinCalls == {{2}, {1, 2}}
SnapshotCalls == {<<{1}, TRUE>>, <<{1, 2, 3}, FALSE>>}
RestoreCalls == SnapshotCalls

\* The fault sets an executor job may meet.
FaultSets == {{}} \cup (IF budget.faults > 0 THEN {{d} : d \in Entities} ELSE {})

Faulted(E) == \E i \in DOMAIN E.log : ~E.log[i].ok

\* The entity fields, players and budget after an executor job that started from Cur.
Ran(E) ==
    /\ coordinator' = E.coordinator
    /\ soco_snapshot' = E.soco_snapshot
    /\ snapshot_group' = E.snapshot_group
    /\ devCoord' = E.devCoord
    /\ devStatus' = E.devStatus
    /\ devEvt' = [x \in Entities |-> devEvt[x] \/ x \in Changed(devCoord, E.devCoord)]
    /\ budget' = [budget EXCEPT !.faults = IF Faulted(E) THEN @ - 1 ELSE @]
    /\ UNCHANGED <<sonos_group, mediaVars, availVars, reachable, jobs, now>>

Pre ==
    [coordinator |-> coordinator, sonos_group |-> sonos_group,
     soco_snapshot |-> soco_snapshot, snapshot_group |-> snapshot_group,
     devStatus |-> devStatus]

\* join_multi: master.join(entities) in the executor, then wait_for_groups([group]).
ExecJoin(t) ==
    /\ tasks[t].pc = "exec" /\ tasks[t].op = "join"
    /\ \E F \in FaultSets :
        LET R == join(Cur, tasks[t].master, tasks[t].entities, F)
        IN  /\ Ran(R.E)
            /\ EnterWait(t, [tasks[t] EXCEPT !.groups = <<R.group>>, !.log = R.E.log,
                                             !.pre = Pre], sonos_group,
                         Disturbed(tasks, R.E.log))

\* unjoin_multi: _unjoin_all in the executor, then wait_for_groups([[e] for e in entities]).
ExecUnjoin(t) ==
    /\ tasks[t].pc = "exec" /\ tasks[t].op = "unjoin"
    /\ \E F \in FaultSets :
        LET E == _unjoin_all(Cur, tasks[t].entities, F)
        IN  /\ Ran(E)
            /\ EnterWait(t, [tasks[t] EXCEPT
                                !.groups = [i \in DOMAIN tasks[t].entities |->
                                               <<tasks[t].entities[i]>>],
                                !.log = E.log, !.pre = Pre], sonos_group,
                         Disturbed(tasks, E.log))

\* snapshot_multi: _snapshot_all in the executor.
ExecSnapshot(t) ==
    /\ tasks[t].pc = "exec" /\ tasks[t].op = "snapshot"
    /\ \E F \in FaultSets :
        LET E == _snapshot_all(Cur, tasks[t].entities, tasks[t].with_group, F)
        IN  /\ Ran(E)
            /\ tasks' = [Disturbed(tasks, E.log) EXCEPT
                            ![t] = [tasks[t] EXCEPT !.pc = "done", !.log = E.log,
                                                    !.pre = Pre]]
    /\ lock' = Free
    /\ UNCHANGED zgs_cache

\* restore_multi: _restore_groups in the executor, then wait_for_groups(groups).
ExecRestore(t) ==
    /\ tasks[t].pc = "exec" /\ tasks[t].op = "restore"
    /\ \E F \in FaultSets :
        LET R == _restore_groups(Cur, tasks[t].entities, tasks[t].with_group, F)
        IN  /\ Ran(R.E)
            /\ EnterWait(t, [tasks[t] EXCEPT !.groups = R.groups, !.log = R.E.log,
                                             !.pre = Pre], sonos_group,
                         Disturbed(tasks, R.E.log))

\* restore_multi: _restore_players in the executor, still under the lock.
ExecRestorePlayers(t) ==
    /\ tasks[t].pc = "restoring"
    /\ \E F \in FaultSets :
        LET E == _restore_players(Cur, tasks[t].entities, F)
        IN  /\ Ran(E)
            /\ tasks' = [Disturbed(tasks, E.log) EXCEPT
                            ![t] = [tasks[t] EXCEPT !.pc = "done", !.log = @ \o E.log]]
    /\ lock' = Free
    /\ UNCHANGED zgs_cache

\* ----------------------------------------------------------- specification
\* Every entity has been added and has built its group from a first poll; the
\* players are in one of the given topologies, playing or paused, and deliver
\* their events.
InitWith(topologies, b) ==
    /\ devCoord \in topologies
    /\ devStatus = [e \in Entities |-> IF e % 2 = 1 THEN "PLAYING" ELSE "PAUSED_PLAYBACK"]
    /\ devEvt = [e \in Entities |-> FALSE]
    /\ reachable = [e \in Entities |-> TRUE]
    /\ coordinator = [e \in Entities |-> IF devCoord[e] = e THEN None ELSE devCoord[e]]
    /\ sonos_group = [e \in Entities |-> RealGroup(devCoord, e)]
    /\ status = devStatus
    /\ shuffle = [e \in Entities |-> FALSE]
    /\ media_duration = [e \in Entities |-> Null]
    /\ media_position = [e \in Entities |-> Null]
    /\ media_position_updated_at = [e \in Entities |-> Null]
    /\ media_title = [e \in Entities |-> "None"]
    /\ source_name = [e \in Entities |-> "Line-in"]
    /\ player_volume = [e \in Entities |-> 20]
    /\ available = [e \in Entities |-> TRUE]
    /\ receives_events = [e \in Entities |-> TRUE]
    /\ subscriptions = [e \in Entities |-> TRUE]
    /\ soco_snapshot = [e \in Entities |-> "None"]
    /\ snapshot_group = [e \in Entities |-> <<>>]
    /\ zgs_cache = [e \in Entities |-> <<>>]
    /\ jobs = {}
    /\ lock = Free
    /\ tasks = [t \in Tasks |-> IdleTask]
    /\ now = 0
    /\ budget = b

\* The service calls of a behaviour run together (NumTasks at a time); the
\* players answer every command and report every topology change, in any order
\* and with any delay.
Services == {"join", "unjoin", "snapshot", "restore"}

Init ==
    InitWith(StartTopologies, [ops |-> [i \in 1..MaxOps |-> Services], faults |-> 0,
                          outages |-> 0, together |-> NumTasks])

Next ==
    \/ \E e \in Entities : DeliverGroupEvent(e, "group")
    \/ \E j \in jobs : HandleGroupEvent(j)
    \/ \E t \in Tasks, c \in JoinCalls : CallJoin(t, c[1], c[2])
    \/ \E t \in Tasks, S \in UnjoinCalls : CallUnjoin(t, S)
    \/ \E t \in Tasks, c \in SnapshotCalls : CallSnapshot(t, c[1], c[2])
    \/ \E t \in Tasks, c \in RestoreCalls : CallRestore(t, c[1], c[2])
    \/ \E t \in Tasks : Acquire(t)
    \/ \E t \in Tasks : ExecJoin(t)
    \/ \E t \in Tasks : ExecUnjoin(t)
    \/ \E t \in Tasks : ExecSnapshot(t)
    \/ \E t \in Tasks : ExecRestore(t)
    \/ \E t \in Tasks : ExecRestorePlayers(t)
    \/ \E t \in Tasks : Wake(t)
    \/ \E t \in Tasks : Timeout(t)
    \/ \E t \in Tasks : TimedOut(t)

Spec == Init /\ [][Next]_vars

\* The same behaviours under the scheduling of the event loop: a call that can take
\* the lock takes it, a notified waiter that can go on goes on, and the 5 s timer
\* of a wait fires. An executor job that was started ends (every device command
\* answers or times out): the executor actions are enabled exactly at the
\* positions "exec" and "restoring", so their weak fairness is that the call is
\* again and again at neither. Nothing makes the players report.
LoopStep(t) == Acquire(t) \/ Wake(t) \/ Timeout(t) \/ TimedOut(t)

Fairness ==
    \A t \in Tasks :
        /\ WF_vars(LoopStep(t))
        /\ []<>(tasks[t].pc \notin {"exec", "restoring"})

SpecLive == Init /\ [][Next]_vars /\ Fairness

\* A snapshot, a change of topology and a restore, one after the other; a device
\* command may fault.
SeqInit ==
    InitWith(StartTopologies, [ops |-> <<{"snapshot"}, {"join", "unjoin"}, {"restore"}>>,
                               faults |-> MaxFaults, outages |-> 0, together |-> 1])

SeqNext ==
    \/ \E e \in Entities : DeliverGroupEvent(e, "group")
    \/ \E j \in jobs : HandleGroupEvent(j)
    \/ \E t \in Tasks, c \in JoinCalls : CallJoin(t, c[1], c[2])
    \/ \E t \in Tasks, S \in UnjoinCalls : CallUnjoin(t, S)
    \/ \E t \in Tasks, c \in SnapshotCalls : CallSnapshot(t, c[1], c[2])
    \/ \E t \in Tasks, c \in RestoreCalls : CallRestore(t, c[1], c[2])
    \/ \E t \in Tasks : ExecJoin(t)
    \/ \E t \in Tasks : ExecUnjoin(t)
    \/ \E t \in Tasks : ExecSnapshot(t)
    \/ \E t \in Tasks : ExecRestore(t)
    \/ \E t \in Tasks : ExecRestorePlayers(t)
    \/ \E t \in Tasks : Wake(t)
    \/ \E t \in Tasks : Timeout(t)

SpecSeq == SeqInit /\ [][SeqNext]_vars

\* One join or unjoin, starting from 1 with follower 2, while the players drop off
\* the network and come back, their notifications come with or without a member
\* list, and update() runs at any time.
PollInit ==
    InitWith({Grouped(1, {2})}, [ops |-> <<{"join", "unjoin"}>>, faults |-> 0,
                                 outages |-> MaxOutages, together |-> 1])

PollNext ==
    \/ \E e \in Entities, kind \in {"group", "empty", "other"} : DeliverGroupEvent(e, kind)
    \/ \E j \in jobs : HandleGroupEvent(j)
    \/ \E e \in Entities : DevReachability(e)
    \/ \E e \in Entities : UpdateLost(e)
    \/ \E e \in Entities : UpdateFound(e)
    \/ \E e \in Entities : UpdatePoll(e, LineInInputs)
    \/ \E t \in Tasks, c \in JoinCalls : CallJoin(t, c[1], c[2])
    \/ \E t \in Tasks, S \in UnjoinCalls : CallUnjoin(t, S)
    \/ \E t \in Tasks : ExecJoin(t)
    \/ \E t \in Tasks : ExecUnjoin(t)
    \/ \E t \in Tasks : Wake(t)
    \/ \E t \in Tasks : Timeout(t)

SpecPoll == PollInit /\ [][PollNext]_vars

\* Snapshots taken twice and restored twice: a snapshot, then a second snapshot or
\* a change of topology, then two restores, one after the other; a device command
\* may fault.
SnapInit ==
    InitWith(StartTopologies,
             [ops |-> <<{"snapshot"}, {"snapshot", "join", "unjoin"}, {"restore"}, {"restore"}>>,
              faults |-> MaxFaults, outages |-> 0, together |-> 1])

SnapNext ==
    \/ \E e \in Entities : DeliverGroupEvent(e, "group")
    \/ \E j \in jobs : HandleGroupEvent(j)
    \/ \E t \in Tasks, c \in JoinCalls : CallJoin(t, c[1], c[2])
    \/ \E t \in Tasks, S \in UnjoinCalls : CallUnjoin(t, S)
    \/ \E t \in Tasks, c \in SnapshotCalls : CallSnapshot(t, c[1], c[2])
    \/ \E t \in Tasks, c \in RestoreCalls : CallRestore(t, c[1], c[2])
    \/ \E t \in Tasks : ExecJoin(t)
    \/ \E t \in Tasks : ExecUnjoin(t)
    \/ \E t \in Tasks : ExecSnapshot(t)
    \/ \E t \in Tasks : ExecRestore(t)
    \/ \E t \in Tasks : ExecRestorePlayers(t)
    \/ \E t \in Tasks : Wake(t)
    \/ \E t \in Tasks : Timeout(t)

SpecSnap == SnapInit /\ [][SnapNext]_vars

\* Two joins or unjoins, one after the other, while playback commands are sent to
\* any entity at any time.
PlayInit ==
    InitWith(StartTopologies, [ops |-> <<{"join", "unjoin"}, {"join", "unjoin"}>>,
                               faults |-> 0,
                               outages |-> 0, together |-> 1])

PlayNext ==
    \/ \E e \in Entities : DeliverGroupEvent(e, "group")
    \/ \E j \in jobs : HandleGroupEvent(j)
    \/ \E t \in Tasks, c \in JoinCalls : CallJoin(t, c[1], c[2])
    \/ \E t \in Tasks, S \in UnjoinCalls : CallUnjoin(t, S)
    \/ \E t \in Tasks : ExecJoin(t)
    \/ \E t \in Tasks : ExecUnjoin(t)
    \/ \E t \in Tasks : Wake(t)
    \/ \E t \in Tasks : Timeout(t)
    \/ \E e \in Entities, st \in PlaybackCommands : MediaCommand(e, st)

SpecPlay == PlayInit /\ [][PlayNext]_vars

\* An unjoin, a snapshot and a restore, one after the other, starting from 1 with
\* follower 2, while the players' notifications come with or without a member
\* list: one without has the handler poll the player and fill pysonos' cache.
CacheInit ==
    InitWith({Grouped(1, {2})}, [ops |-> <<{"unjoin"}, {"snapshot"}, {"restore"}>>,
                                 faults |-> 0, outages |-> 0, together |-> 1])

CacheNext ==
    \/ \E e \in Entities, kind \in {"group", "empty"} : DeliverGroupEvent(e, kind)
    \/ \E j \in jobs : HandleGroupEvent(j)
    \/ \E t \in Tasks, S \in UnjoinCalls : CallUnjoin(t, S)
    \/ \E t \in Tasks, c \in SnapshotCalls : CallSnapshot(t, c[1], c[2])
    \/ \E t \in Tasks, c \in RestoreCalls : CallRestore(t, c[1], c[2])
    \/ \E t \in Tasks : ExecUnjoin(t)
    \/ \E t \in Tasks : ExecSnapshot(t)
    \/ \E t \in Tasks : ExecRestore(t)
    \/ \E t \in Tasks : ExecRestorePlayers(t)
    \/ \E t \in Tasks : Wake(t)
    \/ \E t \in Tasks : Timeout(t)

SpecCache == CacheInit /\ [][CacheNext]_vars

\* No service call: the followed players change their transport state and report
\* any kind of media while time passes.
Listened == 1..NumListened

MediaInit ==
    InitWith({Grouped(1, {})}, [ops |-> <<>>, faults |-> 0, outages |-> 0,
                                together |-> 1])

MediaNext ==
    \/ Tick
    \/ \E e \in Listened : DevTransport(e)
    \/ \E e \in Listened : UpdateMedia(e, MediaInputs)
    \/ \E e \in Listened : UpdateVolume(e)

SpecMedia == MediaInit /\ [][MediaNext]_vars

\* No service call: the players drop off the network and come back, update() runs
\* at any time, and the four channels deliver their notifications; the transport
\* channel reports line-in or TV, a poll reads line-in.
EventInputs == {in \in MediaInputs : in.kind \in {"linein", "tv"}}

EventsInit ==
    InitWith({Grouped(1, {2})}, [ops |-> <<>>, faults |-> 0, outages |-> MaxOutages,
                                 together |-> 1])

EventsNext ==
    \/ \E e \in Entities, kind \in {"group", "empty", "other"} : DeliverGroupEvent(e, kind)
    \/ \E j \in jobs : HandleGroupEvent(j)
    \/ \E e \in Entities : UpdateMedia(e, EventInputs)
    \/ \E e \in Entities : UpdateVolume(e)
    \/ \E e \in Entities : DevReachability(e)
    \/ \E e \in Entities : UpdateLost(e)
    \/ \E e \in Entities : UpdateFound(e)
    \/ \E e \in Entities : UpdatePoll(e, LineInInputs)

SpecEvents == EventsInit /\ [][EventsNext]_vars

\* No service call: the followed players report any kind of media, by
\* notification and by poll, while time passes, and drop off the network and come
\* back, with update() running at any time.
RefreshInit ==
    InitWith({Grouped(1, {})}, [ops |-> <<>>, faults |-> 0, outages |-> MaxOutages,
                                together |-> 1])

RefreshNext ==
    \/ Tick
    \/ \E e \in Listened : DevTransport(e)
    \/ \E e \in Listened : UpdateMedia(e, MediaInputs)
    \/ \E e \in Listened : DeliverGroupEvent(e, "group")
    \/ \E j \in jobs : HandleGroupEvent(j)
    \/ \E e \in Listened : DevReachability(e)
    \/ \E e \in Listened : UpdateLost(e)
    \/ \E e \in Listened : UpdateFound(e)
    \/ \E e \in Listened : UpdatePoll(e, MediaInputs)

SpecRefresh == RefreshInit /\ [][RefreshNext]_vars

\* ------------------------------------------------------------- properties
\* The step is entity e applying the reported list `group`: the handler of its
\* notification ran at once, or its queued job was given the lock.
RegroupStep(e, group) ==
    /\ group[1] = e
    /\ \/ /\ lock = Free /\ devEvt[e] /\ ~devEvt'[e] /\ jobs' = jobs
          /\ group = RealGroup(devCoord, e)
       \/ /\ [ent |-> e, payload |-> group] \in jobs
          /\ jobs' = jobs \ {[ent |-> e, payload |-> group]}

\* The lists a player may report.
ReportedGroups == {RealGroup(dc, e) : dc \in Topologies, e \in Entities}

\* The topology invariant over every registered device.
TopologyInvariant(coord, groups) ==
    \A d \in Entities :
        coord[d] # None => /\ Contains(groups[coord[d]], d)
                           /\ groups[d] = groups[coord[d]]

\* The topology invariant over the devices of an applied list.
MembersInvariant(coord, groups, group) ==
    /\ coord[group[1]] = None
    /\ groups[group[1]] = group
    /\ \A i \in 2..Len(group) : coord[group[i]] = group[1] /\ groups[group[i]] = group

\* C1, as stated: immediately after every application of a member list by its
\* coordinator, the topology invariant holds over all registered devices, the
\* devices that left the list included.
C1_AllDevices ==
    [][\A e \in Entities, group \in ReportedGroups :
          RegroupStep(e, group) => TopologyInvariant(coordinator', sonos_group')]_vars

\* C1, amended: immediately after every application of a member list by its
\* coordinator, the invariant holds over the devices of that list: the head's
\* pointer is nil, every follower points at the head, and all of them hold the
\* applied list. Devices that left the list keep their pointer and their list.
C1_ListMembers ==
    [][\A e \in Entities, group \in ReportedGroups :
          RegroupStep(e, group) => MembersInvariant(coordinator', sonos_group', group)]_vars

\* A join was woken by the application of a list that gave a follower a new head.
C1_Witness ==
    \E t \in Tasks :
        /\ tasks[t].op = "join" /\ tasks[t].pc = "woken" /\ Len(tasks[t].by) >= 2
        /\ coordinator[tasks[t].by[2]] = tasks[t].by[1]
        /\ sonos_group[tasks[t].by[2]] = tasks[t].by
        /\ tasks[t].pre.sonos_group[tasks[t].by[2]] # tasks[t].by


\* The step is service call t returning from wait_for_groups by convergence.
Converges(t) ==
    /\ tasks[t].pc \in {"exec", "woken"}
    /\ tasks'[t].pc \in {"done", "restoring"}
    /\ tasks'[t].how = "converged"

\* Call t is join_multi(1, [2]).
JoinsTwoToOne(t) ==
    tasks[t].op = "join" /\ tasks[t].master = 1 /\ tasks[t].entities = <<2>>

\* C2, as stated: join_multi(1, [2]) whose wait ends by convergence finishes with
\* 2's pointer at 1 and with the list [1, 2] on both, from any starting topology.
C2_BothLists ==
    [][\A t \in Tasks :
          JoinsTwoToOne(t) /\ Converges(t)
          => /\ coordinator'[2] = 1
             /\ sonos_group'[1] = <<1, 2>>
             /\ sonos_group'[2] = <<1, 2>>]_vars

\* The followers the master of call t had when its executor job started: none
\* when it was a follower itself.
PriorFollowers(rec) ==
    IF rec.pre.coordinator[rec.master] # None THEN {}
    ELSE SeqToSet(Tail(rec.pre.sonos_group[rec.master]))

\* C2, amended: join_multi(1, [2]) whose wait ends by convergence finishes with 1
\* at the head of its own list, its followers being 2 and the followers 1 had at
\* the call: the list is [1, 2] only when 1 had no other follower. 2's pointer is
\* 1 and 2's list is 1's list when the wait was ended by 1 applying a reported
\* list that holds 2 and no topology field was written between that application
\* and the return; they need not be when the first test passed on the list 1
\* already had, or when another call's command or 2's own report came in between.
C2_MasterList ==
    [][\A t \in Tasks :
          JoinsTwoToOne(t) /\ Converges(t)
          => /\ sonos_group'[1][1] = 1
             /\ SeqToSet(Tail(sonos_group'[1])) = PriorFollowers(tasks'[t]) \cup {2}
             /\ (/\ tasks[t].pc = "woken" /\ tasks[t].by # <<>>
                 /\ tasks[t].by[1] = 1 /\ Contains(tasks[t].by, 2)
                 => coordinator'[2] = 1 /\ sonos_group'[2] = sonos_group'[1])]_vars

\* join_multi(1, [2]) started with 1 and 2 apart, waited, and returned after 1
\* applied [1, 2].
C2_Witness ==
    \E t \in Tasks :
        /\ tasks[t].op = "join" /\ tasks[t].master = 1 /\ tasks[t].entities = <<2>>
        /\ tasks[t].pc = "done" /\ tasks[t].how = "converged" /\ tasks[t].by = <<1, 2>>
        /\ tasks[t].pre.sonos_group[1] # <<1, 2>> /\ tasks[t].pre.coordinator[2] # 1
        /\ coordinator[2] = 1 /\ sonos_group[1] = <<1, 2>> /\ sonos_group[2] = <<1, 2>>

\* Call t is unjoin_multi([1, 2]) and, when its executor job started, 1 was the
\* coordinator of the group [1, 2].
UnjoinsOneAndTwo(rec) ==
    /\ rec.op = "unjoin" /\ rec.entities = <<1, 2>>
    /\ rec.pre.coordinator # <<>>
    /\ rec.pre.coordinator[1] = None /\ rec.pre.coordinator[2] = 1
    /\ rec.pre.sonos_group[1] = <<1, 2>> /\ rec.pre.sonos_group[2] = <<1, 2>>

CommandStep(u) ==
    /\ tasks[u].pc \in {"exec", "restoring"}
    /\ tasks'[u].pc # tasks[u].pc
    /\ Len(tasks'[u].log) > Len(tasks[u].log)

\* Call t is between taking the lock and returning.
InCall(t) == tasks[t].pc \in {"exec", "waiting", "woken", "timedout", "restoring"}

\* C4, as stated: from the moment a service call takes the lock until it returns,
\* its convergence wait included, no other service call issues a device command.
C4_WholeCall ==
    [][\A t, u \in Tasks : t # u /\ InCall(t) => ~CommandStep(u)]_vars

\* C4, amended: the executor jobs of the service calls exclude each other: a call
\* that issues device commands holds the lock and no other call is in an
\* executor job, nor between two of its own. A call inside its convergence wait
\* has released the lock, and another call may then run from start to end.
C4_ExecutorJobs ==
    [][\A u \in Tasks :
          CommandStep(u)
          => /\ lock = u
             /\ \A t \in Tasks \ {u} : tasks[t].pc \notin {"exec", "restoring"}]_vars

\* A call is inside its wait while another call, which issued device commands in
\* that wait, is in its own.
C4_Witness ==
    \E t, u \in Tasks :
        /\ t # u
        /\ InWait(tasks[t]) /\ tasks[t].disturbed /\ tasks[t].log # <<>>
        /\ InWait(tasks[u]) /\ tasks[u].log # <<>>

\* The step is restore_multi call t, restoring groups, running _restore_players
\* and issuing its first per-device restore.
RestoresPlayers(t) ==
    /\ tasks[t].op = "restore" /\ tasks[t].with_group
    /\ tasks[t].pc = "restoring" /\ tasks'[t].pc = "done"
    /\ Len(tasks'[t].log) > Len(tasks[t].log)

\* Every target group's coordinator heads its own list and has exactly the
\* target followers.
TargetsThere(groups) ==
    \A i \in DOMAIN groups :
        /\ groups[i] # <<>>
        /\ sonos_group[groups[i][1]][1] = groups[i][1]
        /\ SeqToSet(Tail(sonos_group[groups[i][1]])) = SeqToSet(Tail(groups[i]))

\* C5, as stated: in every execution of restore_multi with group restore, when
\* the first per-device restore is issued every target group's coordinator heads
\* its own membership list and has exactly the target followers.
C5_AlwaysThere ==
    [][\A t \in Tasks :
          RestoresPlayers(t) => TargetsThere(tasks[t].groups)]_vars

\* C5, amended: in restore_multi with group restore, when the first per-device
\* restore is issued the convergence wait has ended; when it ended by convergence,
\* every target group's coordinator heads its own membership list and has exactly
\* the target followers. When it ended by the 5 s timeout, the per-device restores
\* are issued all the same, on whatever topology there is.
C5_ThereUnlessTimeout ==
    [][\A t \in Tasks :
          RestoresPlayers(t)
          => /\ tasks[t].how \in {"converged", "timeout"}
             /\ (tasks[t].how = "converged"
                 => TargetsThere(tasks[t].groups))]_vars

\* A restore_multi with group restore had a target group to wait for, was woken by
\* its application and restored its players.
C5_Witness ==
    \E t \in Tasks :
        /\ tasks[t].op = "restore" /\ tasks[t].with_group
        /\ tasks[t].pc = "done" /\ tasks[t].how = "converged"
        /\ tasks[t].groups # <<>> /\ tasks[t].by = tasks[t].groups[1]
        /\ \E i \in DOMAIN tasks[t].log : tasks[t].log[i].cmd = "restore"

\* The step is restore_multi call t, restoring groups, returning after a wait that
\* ended by convergence.
RestoreReturns(t) ==
    /\ tasks[t].op = "restore" /\ tasks[t].with_group
    /\ tasks[t].pc = "restoring" /\ tasks'[t].pc = "done"
    /\ tasks[t].how = "converged"

\* Entity e went into restore_multi call rec with a snapshot that was taken with
\* its group.
Snapshotted(rec, e) ==
    /\ Contains(rec.entities, e)
    /\ rec.pre.soco_snapshot[e] \notin {"None", "EMPTY"}
    /\ rec.pre.snapshot_group[e] # <<>>

\* Call rec issued a command c to entity e that the player took.
Took(rec, c, e) ==
    \E i \in DOMAIN rec.log :
        rec.log[i].cmd = c /\ rec.log[i].ent = e /\ rec.log[i].ok

RestoreOrdered(log) ==
    \A i, j \in DOMAIN log :
        i < j /\ log[i].cmd = "restore"
        => /\ log[j].cmd # "pause"
           /\ ~(log[i].arg = None /\ log[j].cmd = "restore" /\ log[j].arg # None)

\* C7: within one restore_multi the pause commands come first, then the restore
\* of every follower, then the restore of every coordinator, follower and
\* coordinator being what the pointers say when the restores are issued.
C7_RestoreOrder ==
    \A t \in Tasks : tasks[t].op = "restore" => RestoreOrdered(tasks[t].log)

\* A restore_multi paused a coordinator, then restored a follower, then restored
\* a coordinator.
C7_Witness ==
    \E t \in Tasks :
        /\ tasks[t].op = "restore" /\ tasks[t].pc = "done"
        /\ \E i, j, k \in DOMAIN tasks[t].log :
            /\ i < j /\ j < k
            /\ tasks[t].log[i].cmd = "pause"
            /\ tasks[t].log[j].cmd = "restore" /\ tasks[t].log[j].arg # None
            /\ tasks[t].log[k].cmd = "restore" /\ tasks[t].log[k].arg = None

\* The step is the wait of call t ending by timeout.
TimesOut(t) ==
    /\ InWait(tasks[t])
    /\ tasks'[t].how = "timeout"

\* C8: when the target groups do not converge, wait_for_groups gives up at the
\* timeout and returns to its caller without raising (the call ends, or
\* restore_multi goes on), and on return the cached topology of every registered
\* device has been cleared.
C8_TimeoutReturns ==
    [][\A t \in Tasks :
          TimesOut(t)
          => /\ tasks'[t].pc \in {"done", "restoring"}
             /\ \A e \in Entities : zgs_cache'[e] = <<>>]_vars

\* A join or unjoin whose targets did not converge has returned by timeout, with
\* every cache empty, after the players reported topology changes that were
\* polled.
C8_Witness ==
    \E t \in Tasks :
        /\ tasks[t].pc = "done" /\ tasks[t].how = "timeout"
        /\ _test_groups(sonos_group, tasks[t].groups) = "false"
        /\ \A e \in Entities : zgs_cache[e] = <<>>
        /\ \E e \in Entities : ~devEvt[e] /\ sonos_group[e] # tasks[t].pre.sonos_group[e]

\* The transport states a player reports when it is not between two of them.
SettledStates == {"PLAYING", "PAUSED_PLAYBACK", "STOPPED"}

\* C9: a transport update that reports TRANSITIONING changes neither the recorded
\* status nor shuffle, media metadata and position record, whatever media the
\* player reports with it; and the recorded status is never TRANSITIONING.
C9_TransitioningIgnored ==
    \A e \in Entities :
        /\ status[e] # "TRANSITIONING"
        /\ \A in \in MediaInputs :
              update_media(MediaOf(e), "TRANSITIONING", in, now) = MediaOf(e)

\* A player that stopped is recorded as stopped, with a position record that an
\* update would overwrite.
C9_Witness ==
    \E e \in Listened :
        /\ status[e] = "STOPPED" /\ devStatus[e] = "STOPPED"
        /\ media_position[e] # Null /\ media_position_updated_at[e] < now

\* What a player may report about a discrete track.
MusicInputs == {in \in MediaInputs : in.kind = "music"}

\* C10: for a discrete track, with the recorded pair (p, t), the raw position r
\* read at `now` and the extrapolation p + (now - t), the pair becomes (r, now) if
\* and only if the reported status differs from the recorded one, or exactly one
\* of p and r is absent, or the extrapolation differs from r by more than 1.5 s;
\* otherwise, a difference of exactly 1.5 s included, p and t stay. (Positions
\* are seconds, times tenths of a second.)
C10_DriftRule ==
    \A e \in Entities, new_status \in SettledStates, in \in MusicInputs :
        LET m == MediaOf(e)
            after == update_media(m, new_status, in, now)
            r == _timespan_secs(in.rel)
            overwrite ==
                \/ new_status # m.status
                \/ (m.position = Null) # (r = Null)
                \/ /\ m.position # Null /\ r # Null
                   /\ Abs(10 * m.position + (now - m.updated_at) - 10 * r) > 15
        IN  IF overwrite
            THEN after.position = r /\ after.updated_at = now
            ELSE after.position = m.position /\ after.updated_at = m.updated_at

\* The position 10 s was recorded half a second ago on a playing player: a raw
\* position of 12 s is exactly 1.5 s from the extrapolation, one of 20 s is beyond.
C10_Witness ==
    \E e \in Listened :
        /\ status[e] = "PLAYING" /\ media_position[e] = 10
        /\ now - media_position_updated_at[e] = 5

\* The lists a handler of entity e may resolve from the payload of its job: the
\* member list of the notification, or what a poll of the player answers.
Resolved(e, payload) == IF payload # <<>> THEN {payload} ELSE PollResults(e)

\* Nothing of the topology store changes and no waiter is notified.
Unapplied ==
    /\ coordinator' = coordinator /\ sonos_group' = sonos_group /\ tasks' = tasks

\* C11: a topology update handled by entity e, from the member list of a
\* notification or from a poll, that resolves to a list whose first entry is not
\* e changes no coordinator pointer and no membership list and notifies no
\* waiter, whether the handler ran at once or its job had queued for the lock.
C11_OnlyHeadApplies ==
    [][\A e \in Entities :
          /\ \A j \in jobs :
                /\ j.ent = e /\ lock = Free /\ jobs' = jobs \ {j}
                /\ \A g \in Resolved(e, j.payload) : g[1] # e
                => Unapplied
          /\ (/\ lock = Free /\ devEvt[e] /\ ~devEvt'[e] /\ jobs' = jobs
              /\ \A g \in {RealGroup(devCoord, e)} \cup PollResults(e) : g[1] # e
              => Unapplied)]_vars

\* A follower-to-be polled its player while a call waited: the list it resolved
\* is headed by another player and is not the list it holds.
C11_Witness ==
    \E e \in Entities, t \in Tasks :
        /\ zgs_cache[e] # <<>> /\ zgs_cache[e][1] # e
        /\ sonos_group[e] # zgs_cache[e]
        /\ InWait(tasks[t])

\* The unjoin commands of one call in order: none to a follower after one to a
\* coordinator, both as the pointers were when _unjoin_all started.
UnjoinOrdered(rec) ==
    \A i, j \in DOMAIN rec.log :
        i < j => ~(/\ rec.pre.coordinator[rec.log[i].ent] = None
                   /\ rec.pre.coordinator[rec.log[j].ent] # None)

\* C12: in unjoin_multi over any set of devices, every unjoin command to a device
\* that was a follower when the helper of the operation started is issued before
\* any unjoin command to a device that was a coordinator then.
C12_FollowersFirst ==
    \A t \in Tasks :
        tasks[t].op = "unjoin" /\ tasks[t].log # <<>> => UnjoinOrdered(tasks[t])

\* unjoin_multi([1, 2]) on the group [1, 2] has unjoined 2, the follower, and
\* then 1, its coordinator, against the order of the call.
C12_Witness ==
    \E t \in Tasks :
        /\ tasks[t].op = "unjoin" /\ tasks[t].entities = <<1, 2>>
        /\ Len(tasks[t].log) = 2
        /\ tasks[t].log[1].ent = 2 /\ tasks[t].log[2].ent = 1
        /\ tasks[t].pre.coordinator[1] = None /\ tasks[t].pre.coordinator[2] = 1

\* C13, as stated: no service call raises past its boundary: whatever device
\* command faults, join_multi, unjoin_multi, snapshot_multi and restore_multi run
\* to completion and return normally.
C13_NeverRaises ==
    \A t \in Tasks : tasks[t].pc # "raised"

\* What does hold: only join_multi raises, and only after the join command of a
\* member faulted, so that join returned None and _test_groups subscripted it.
C13_OnlyJoinRaises ==
    \A t \in Tasks :
        tasks[t].pc = "raised"
        => /\ tasks[t].op = "join" /\ tasks[t].groups = <<(<<>>)>>
           /\ \E i \in DOMAIN tasks[t].log :
                 tasks[t].log[i].cmd = "join" /\ ~tasks[t].log[i].ok

\* Call rec issued the command c to entity e, whether the player took it or not.
Issued(rec, c, e) ==
    \E i \in DOMAIN rec.log : rec.log[i].cmd = c /\ rec.log[i].ent = e

\* The executor helper of call rec, the one that issues its commands, has returned.
HelperRan(rec) == rec.pc \in {"waiting", "woken", "timedout", "raised", "done"}

\* Every member of a join other than the master was sent its join command.
JoinGoesOn(rec) ==
    rec.op = "join" /\ HelperRan(rec)
    => \A e \in SeqToSet(rec.entities) \ {rec.master} : Issued(rec, "join", e)

\* Every entity of an unjoin_multi was sent its unjoin command, and every
\* snapshotted entity of a restore_multi its restore.
UnjoinRestoreGoOn(rec) ==
    /\ rec.op = "unjoin" /\ HelperRan(rec)
       => \A e \in SeqToSet(rec.entities) : Issued(rec, "unjoin", e)
    /\ rec.op = "restore" /\ rec.pc = "done"
       => \A e \in SeqToSet(rec.entities) :
             rec.pre.soco_snapshot[e] # "None" => Issued(rec, "restore", e)

\* C14, as stated: in join, unjoin_multi and restore_multi a fault on the command
\* to one member does not abort the commands to the other members: every member
\* is sent its command.
C14_SiblingsGoOn ==
    \A t \in Tasks : JoinGoesOn(tasks[t]) /\ UnjoinRestoreGoOn(tasks[t])

\* What does hold: unjoin_multi and the player restores of restore_multi go on
\* after a fault.
C14_UnjoinRestoreGoOn ==
    \A t \in Tasks : UnjoinRestoreGoOn(tasks[t])

\* An unjoin_multi or restore_multi went on after one of its commands faulted.
C14_WentOn ==
    \E t \in Tasks :
        /\ tasks[t].op \in {"unjoin", "restore"} /\ tasks[t].pc = "done"
        /\ \E i, j \in DOMAIN tasks[t].log :
              i < j /\ ~tasks[t].log[i].ok /\ tasks[t].log[j].ok

\* The step is a refresh cycle of entity e finding the player, which was
\* available, unreachable.
MarkedLost(e) == available[e] /\ ~available'[e]

\* What the refresh cycle clears: volume, position, timestamp, duration,
\* metadata, the coordinator pointer and the subscriptions.
FieldsReset(e) ==
    /\ player_volume'[e] = Null
    /\ media_position'[e] = Null /\ media_position_updated_at'[e] = Null
    /\ media_duration'[e] = Null
    /\ media_title'[e] = "None" /\ source_name'[e] = "None"
    /\ status'[e] = "OFF"
    /\ coordinator'[e] = None
    /\ ~subscriptions'[e]

\* C15, as stated: when a refresh cycle finds an available device unreachable,
\* its volume, position, timestamp, duration and metadata are cleared, its
\* coordinator pointer becomes nil, its subscriptions are released, and its
\* membership list becomes the one-member list [self].
C15_ResetWithGroup ==
    [][\A e \in Entities :
          MarkedLost(e) => FieldsReset(e) /\ sonos_group'[e] = <<e>>]_vars

\* What does hold: the fields are cleared and the membership list is the one the
\* device had.
C15_ResetKeepsGroup ==
    [][\A e \in Entities :
          MarkedLost(e) => FieldsReset(e) /\ sonos_group'[e] = sonos_group[e]]_vars

\* Entity e has received notifications, and its player has a topology change to
\* report that has not arrived: delivery may have stopped.
Silent(e) == receives_events[e] /\ devEvt[e]

\* A refresh cycle of entity e would poll the player.
WouldPoll(e) == ENABLED UpdatePoll(e, LineInInputs)

\* C16, as stated: an available, reachable device whose notifications stopped
\* arriving after some were received polls on its next refresh cycle, and so does
\* every available device that is not receiving events.
C16_PollsWhenSilent ==
    \A e \in Entities :
        available[e] /\ reachable[e] /\ (Silent(e) \/ ~receives_events[e])
        => WouldPoll(e)

\* What does hold: a refresh cycle polls exactly when the device is available
\* and reachable and no notification has arrived since it last subscribed.
C16_PollsUntilFirstEvent ==
    \A e \in Entities :
        WouldPoll(e) <=> available[e] /\ reachable[e] /\ ~receives_events[e]

\* No join, unjoin or restore is in progress.
NoMutation == \A t \in Tasks : Over(t) \/ tasks[t].op = "snapshot"

\* Every report of the players has arrived and has been handled.
AllHandled == jobs = {} /\ \A e \in Entities : ~devEvt[e]

\* C17, as stated: in every reachable state in which no join, unjoin or restore
\* is in progress, every device with a coordinator is in its coordinator's
\* membership list and holds the same list, states after a timed out wait
\* included.
C17_WheneverIdle ==
    NoMutation => TopologyInvariant(coordinator, sonos_group)

\* The same, asked only of the idle states in which every report of the players
\* has been handled.
C17_WhenSettled ==
    NoMutation /\ AllHandled => TopologyInvariant(coordinator, sonos_group)

\* The devices reachable from S by following membership lists, any number of steps.
RECURSIVE Closure(_)
Closure(S) ==
    LET T == S \cup UNION {SeqToSet(sonos_group[e]) : e \in S}
    IN  IF T = S THEN S ELSE Closure(T)

\* The devices of S and the members of their own lists: one step.
OneStep(S) == S \cup UNION {SeqToSet(sonos_group[e]) : e \in S}

\* The step is snapshot_multi with group being called as task t.
SnapshotCalled(t) ==
    /\ Over(t) /\ tasks'[t].pc \in {"exec", "acquire"}
    /\ tasks'[t].op = "snapshot" /\ tasks'[t].with_group

\* The step is the executor job of snapshot_multi with group, task t.
SnapshotRuns(t) ==
    /\ tasks[t].op = "snapshot" /\ tasks[t].with_group
    /\ tasks[t].pc = "exec" /\ tasks'[t].pc = "done"

\* Every device of the call's set is sent a snapshot command and holds a snapshot.
AllSnapshotted(t) ==
    \A e \in SeqToSet(tasks[t].entities) :
        Issued(tasks'[t], "snapshot", e) /\ soco_snapshot'[e] # "None"

\* C18, as stated: snapshot_multi with group snapshots every device transitively
\* reachable from the requested devices through membership lists, also when the
\* lists of different devices disagree.
C18_Closure ==
    [][\A t \in Tasks :
          /\ SnapshotCalled(t)
             => \E c \in SnapshotCalls :
                   c[2] /\ SeqToSet(tasks'[t].entities) = Closure(c[1])
          /\ SnapshotRuns(t) => AllSnapshotted(t)]_vars

\* C18, amended: snapshot_multi with group snapshots the requested devices and
\* the members of each requested device's own membership list as it is when the
\* call is made: one step, not the closure. The lists of the devices added are
\* not followed, so a device that only they list is left out; the two sets are
\* the same whenever the members hold the list of the requested device.
C18_OwnLists ==
    [][\A t \in Tasks :
          /\ SnapshotCalled(t)
             => \E c \in SnapshotCalls :
                   c[2] /\ SeqToSet(tasks'[t].entities) = OneStep(c[1])
          /\ SnapshotRuns(t) => AllSnapshotted(t)]_vars

\* A snapshot with group of 1 took 1 and the members of 1's list while one of
\* them listed a device that 1 did not.
C18_Witness ==
    \E t \in Tasks :
        /\ tasks[t].op = "snapshot" /\ tasks[t].with_group /\ tasks[t].pc = "done"
        /\ SeqToSet(tasks[t].entities) = SeqToSet(tasks[t].pre.sonos_group[1])
        /\ Len(tasks[t].entities) > 1
        /\ \A e \in SeqToSet(tasks[t].entities) : soco_snapshot[e] # "None"
        /\ \E e \in SeqToSet(tasks[t].entities) :
              ~(SeqToSet(tasks[t].pre.sonos_group[e]) \subseteq SeqToSet(tasks[t].entities))

\* The step is the executor job of snapshot_multi, task t.
SnapshotStep(t) ==
    tasks[t].op = "snapshot" /\ tasks[t].pc = "exec" /\ tasks'[t].pc = "done"

\* The step is restore_multi, task t, returning.
RestoreEnds(t) ==
    tasks[t].op = "restore" /\ tasks[t].pc = "restoring" /\ tasks'[t].pc = "done"

\* The affected set restore_multi would find for the call c = <<entities,
\* with_group>> with the snapshots snap and the captured groups grp.
AffectedOf(snap, grp, c) ==
    LET have == {e \in c[1] : snap[e] # "None"}
    IN  have \cup (IF c[2] THEN UNION {SeqToSet(grp[e]) : e \in have} ELSE {})

\* restore_multi leaves no snapshot and no captured group on the devices of its
\* affected set, so that the same call made again finds nothing to restore and
\* issues no device command.
RestoreConsumes(t) ==
    /\ RestoreEnds(t)
       => /\ \A e \in SeqToSet(tasks[t].entities) :
                soco_snapshot'[e] = "None" /\ snapshot_group'[e] = <<>>
          /\ \A c \in RestoreCalls :
                /\ c[2] = tasks[t].with_group
                /\ AffectedOf(tasks[t].pre.soco_snapshot, tasks[t].pre.snapshot_group, c)
                       = SeqToSet(tasks[t].entities)
                => AffectedOf(soco_snapshot', snapshot_group', c) = {}
    /\ tasks'[t].op = "restore" /\ tasks'[t].pc = "done" /\ tasks'[t].entities = <<>>
       => tasks'[t].log = <<>>

\* C19, as stated: a snapshot replaces the one the device held, its captured
\* group is there only when it was taken with_group, and restore_multi leaves no
\* snapshot and no captured group on its affected set, whether the restores
\* succeeded or not, so that an immediately repeated restore_multi issues no
\* device command.
C19_Lifecycle ==
    [][\A t \in Tasks :
          /\ SnapshotStep(t)
             => \A e \in SeqToSet(tasks[t].entities) :
                   /\ soco_snapshot'[e] # "None"
                   /\ snapshot_group'[e] # <<>> => tasks[t].with_group
          /\ RestoreConsumes(t)]_vars

\* What does hold: the same, but a snapshot whose command faulted leaves an empty
\* snapshot together with the group captured by the snapshot before it.
C19_LifecycleUnlessFault ==
    [][\A t \in Tasks :
          /\ SnapshotStep(t)
             => \A e \in SeqToSet(tasks[t].entities) :
                   /\ soco_snapshot'[e] # "None"
                   /\ IF \E i \in DOMAIN tasks'[t].log :
                            tasks'[t].log[i].ent = e /\ ~tasks'[t].log[i].ok
                      THEN soco_snapshot'[e] = "EMPTY"
                           /\ snapshot_group'[e] = snapshot_group[e]
                      ELSE snapshot_group'[e] # <<>> <=> tasks[t].with_group
          /\ RestoreConsumes(t)]_vars

\* A restore_multi made again after one that restored players found nothing and
\* issued no command.
C19_RepeatedRestore ==
    \E t \in Tasks :
        /\ tasks[t].op = "restore" /\ tasks[t].pc = "done"
        /\ tasks[t].entities = <<>> /\ tasks[t].log = <<>>
        /\ budget.ops = <<>>
        /\ \A e \in Entities : soco_snapshot[e] = "None"

\* C20, as stated: the device reached through a follower's coordinator pointer,
\* to which its playback commands go and from which its transport state, position
\* and metadata are read, is always itself a coordinator.
C20_LeaderIsCoordinator ==
    \A e \in Entities :
        ~is_coordinator(e) => is_coordinator(soco_coordinator(e))

\* A playback command sent to a follower changed the transport state of the
\* player that leads its group.
C20_CommandAtLeader ==
    \E e \in Entities :
        /\ ~is_coordinator(e) /\ is_coordinator(soco_coordinator(e))
        /\ devCoord[e] = soco_coordinator(e)
        /\ devStatus[soco_coordinator(e)] # status[soco_coordinator(e)]

\* A service call has returned: snapshot_multi after its executor job, the others
\* after a wait that ended by convergence or by the timeout.
Returned(t) ==
    /\ tasks[t].pc = "done"
    /\ tasks[t].op = "snapshot" \/ tasks[t].how \in {"converged", "timeout"}

\* C21: every service call (join_multi, unjoin_multi, snapshot_multi,
\* restore_multi) that was started eventually returns, its wait having ended by
\* convergence or by the timeout, whether the players' reports are delivered or
\* not and whatever other service call runs at the same time.
C21_EventuallyReturns ==
    \A t \in Tasks : (tasks[t].pc \notin {"idle", "done"}) ~> Returned(t)

\* A call returned by the timeout while a report was still undelivered and the
\* other call was inside its own wait.
C21_Witness ==
    \E t, u \in Tasks :
        /\ t # u /\ Returned(t) /\ tasks[t].how = "timeout"
        /\ InWait(tasks[u])
        /\ \E e \in Entities : devEvt[e]

\* The step is join_multi call t running master.join(entities) in the executor.
JoinStep(t) ==
    /\ tasks[t].pc = "exec" /\ tasks[t].op = "join"
    /\ tasks'[t].pc # "exec"

\* The commands of a log that are joins, and those sent to player e.
JoinsOf(log, e) == {i \in DOMAIN log : log[i].cmd = "join" /\ log[i].ent = e}

\* How often x occurs in s.
Occurrences(s, x) == Cardinality({i \in DOMAIN s : s[i] = x})

\* What the claim says of join(target, members), on the record rec the executor
\* job left and the pointers coord it left: the start of the result, the commands
\* and pointers of the members, and the returned list.
JoinAsDescribed(rec, coord) ==
    LET target == rec.master
        members == SeqToSet(rec.entities) \ {target}
        group == rec.groups[1]
        start == IF rec.pre.coordinator[target] # None THEN <<target>>
                 ELSE rec.pre.sonos_group[target]
    IN  /\ rec.pre.coordinator[target] # None
           => /\ rec.log # <<>> /\ rec.log[1].cmd = "unjoin" /\ rec.log[1].ent = target
              /\ coord[target] = None
        /\ Len(group) >= Len(start) /\ SubSeq(group, 1, Len(start)) = start
        /\ \A e \in members :
              /\ Cardinality(JoinsOf(rec.log, e)) = 1
              /\ \A i \in JoinsOf(rec.log, e) : rec.log[i].arg = target
              /\ coord[e] = target
              /\ Occurrences(group, e) = 1
        /\ JoinsOf(rec.log, target) = {}
        /\ group[1] = target

\* C22, as stated: join(target, members) of a follower target first unjoins it,
\* sets its pointer to nil and starts from [target], and otherwise starts from
\* target's list; every member other than target is sent one join to target and
\* then points at target, target is sent none; the returned list has target
\* first and holds every joined member once.
C22_JoinAsDescribed ==
    [][\A t \in Tasks : JoinStep(t) => JoinAsDescribed(tasks'[t], coordinator')]_vars

\* The same for the joins in which no command faulted and whose target, when it
\* is a coordinator, heads its own list.
C22_UnlessFaultOrStale ==
    [][\A t \in Tasks :
          /\ JoinStep(t)
          /\ \A i \in DOMAIN tasks'[t].log : tasks'[t].log[i].ok
          /\ coordinator[tasks[t].master] = None
             => sonos_group[tasks[t].master][1] = tasks[t].master
          => JoinAsDescribed(tasks'[t], coordinator')]_vars

\* join_multi joined a follower to two players, one of which it already led.
C22_JoinedAsDescribed ==
    \E t \in Tasks :
        /\ tasks[t].op = "join" /\ InWait(tasks[t])
        /\ tasks[t].pre.coordinator[tasks[t].master] # None
        /\ Len(tasks[t].log) >= 2
        /\ JoinAsDescribed(tasks[t], coordinator)

\* The step is restore_multi call t running _restore_groups in the executor.
RestoreGroupsStep(t) ==
    /\ tasks[t].pc = "exec" /\ tasks[t].op = "restore"
    /\ tasks'[t].pc # "exec"

\* The places of a log that hold the command cmd, and those sent to player e.
CmdsOf(log, cmd) == {i \in DOMAIN log : log[i].cmd = cmd}

CmdsTo(log, cmd, e) == {i \in CmdsOf(log, cmd) : log[i].ent = e}

\* C23: in restore_multi, every entity of the affected set that is a coordinator
\* and whose state is 'playing' is sent one pause command, the followers and the
\* entities that are not playing are sent none, and every pause comes before
\* every unjoin and join of the same restore.
C23_PauseFirst ==
    [][\A t \in Tasks :
          RestoreGroupsStep(t)
          => LET log == tasks'[t].log IN
             /\ \A e \in Entities :
                   Cardinality(CmdsTo(log, "pause", e)) =
                       IF /\ Contains(tasks[t].entities, e)
                          /\ is_coordinator(e) /\ state(e) = "playing"
                       THEN 1 ELSE 0
             /\ \A i \in CmdsOf(log, "pause"),
                   j \in CmdsOf(log, "unjoin") \cup CmdsOf(log, "join") : i < j]_vars

\* A restore paused a playing coordinator, left a playing follower alone and
\* went on to unjoin or join.
C23_Witness ==
    \E t \in Tasks :
        /\ tasks[t].op = "restore" /\ tasks[t].pc # "exec"
        /\ CmdsOf(tasks[t].log, "pause") # {}
        /\ CmdsOf(tasks[t].log, "unjoin") \cup CmdsOf(tasks[t].log, "join") # {}
        /\ \E e \in SeqToSet(tasks[t].entities) :
              /\ tasks[t].pre.coordinator[e] # None /\ StateOf(status[e]) = "playing"
              /\ CmdsTo(tasks[t].log, "pause", e) = {}

\* The step is restore_multi call t, restoring groups, running _restore_groups.
RestoreWithGroupStep(t) == RestoreGroupsStep(t) /\ tasks[t].with_group

\* The followers of the affected set whose list is not the snapshotted one.
ChangedFollowers(entities) ==
    {e \in SeqToSet(entities) :
        coordinator[e] # None /\ snapshot_group[e] # sonos_group[e]}

\* The entities of the affected set that head their own snapshotted group.
SnapshotHeads(entities) ==
    {e \in SeqToSet(entities) : snapshot_group[e] # <<>> /\ snapshot_group[e][1] = e}

\* C24, as stated: with group restore, an unjoin is issued to exactly the
\* followers of the affected set whose live list differs from their snapshotted
\* list, all before any join; joins are issued only for devices whose snapshotted
\* group differs from the live one, each to the first member of its snapshotted
\* group; a device whose live group equals its snapshotted group receives no join
\* and no unjoin.
C24_OnlyChanged ==
    [][\A t \in Tasks :
          RestoreWithGroupStep(t)
          => LET log == tasks'[t].log IN
             /\ \A e \in Entities :
                   CmdsTo(log, "unjoin", e) # {} <=> e \in ChangedFollowers(tasks[t].entities)
             /\ \A i \in CmdsOf(log, "unjoin"), j \in CmdsOf(log, "join") : i < j
             /\ \A j \in CmdsOf(log, "join") :
                   /\ snapshot_group[log[j].ent] # sonos_group[log[j].ent]
                   /\ snapshot_group[log[j].ent] # <<>>
                   /\ log[j].arg = snapshot_group[log[j].ent][1]
             /\ \A e \in Entities :
                   snapshot_group[e] = sonos_group[e]
                   => CmdsTo(log, "unjoin", e) \cup CmdsTo(log, "join", e) = {}]_vars

\* C24, amended: with group restore, every follower of the affected set whose
\* live list differs from its snapshotted list is sent an unjoin before any join,
\* and any other unjoin goes to the head of a snapshotted group (join unjoins a
\* target that is a follower). Then every entity of the affected set that heads
\* its own snapshotted group joins that group again whether or not it is there
\* already: the other members of the group are sent a join to the head, in the
\* order of the list, up to the first join that faults; no other join is sent.
C24_RejoinsAll ==
    [][\A t \in Tasks :
          RestoreWithGroupStep(t)
          => LET log == tasks'[t].log
                 heads == SnapshotHeads(tasks[t].entities)
             IN
             /\ \A e \in ChangedFollowers(tasks[t].entities) :
                   \E i \in CmdsTo(log, "unjoin", e) : \A j \in CmdsOf(log, "join") : i < j
             /\ \A i \in CmdsOf(log, "unjoin") :
                   log[i].ent \in ChangedFollowers(tasks[t].entities) \cup heads
             /\ \A j \in CmdsOf(log, "join") : log[j].arg \in heads
             /\ \A h \in heads :
                   LET members == SelectSeq(snapshot_group[h], LAMBDA x : x # h)
                       joins == SelectSeq(log, LAMBDA c : c.cmd = "join" /\ c.arg = h)
                   IN  /\ Len(joins) <= Len(members)
                       /\ \A k \in DOMAIN joins :
                             joins[k].ent = members[k] /\ (joins[k].ok \/ k = Len(joins))
                       /\ Len(joins) < Len(members)
                          => joins # <<>> /\ ~joins[Len(joins)].ok]_vars

\* A restore with group sent a join to a follower whose list was the snapshotted
\* one and whose pointer was at the head of that list.
C24_Witness ==
    \E t \in Tasks :
        /\ tasks[t].op = "restore" /\ tasks[t].with_group /\ tasks[t].pc # "exec"
        /\ \E j \in CmdsOf(tasks[t].log, "join") :
              LET e == tasks[t].log[j].ent IN
              /\ tasks[t].pre.snapshot_group[e] = tasks[t].pre.sonos_group[e]
              /\ tasks[t].pre.coordinator[e] = tasks[t].log[j].arg
              /\ tasks[t].pre.snapshot_group[e][1] = tasks[t].log[j].arg

\* The step writes a coordinator pointer or a membership list.
TopologyWrite == coordinator' # coordinator \/ sonos_group' # sonos_group

\* The step is an executor job of service call t, which holds the lock.
LockedJob(t) ==
    /\ lock = t
    /\ tasks[t].pc \in {"exec", "restoring"} /\ tasks'[t].pc # tasks[t].pc

\* The step is _async_handle_group_event, which takes the free lock for its run: a
\* queued job, or the handler of a notification that found the lock free.
LockedHandler ==
    /\ lock = Free
    /\ \/ jobs' # jobs /\ jobs' \subseteq jobs
       \/ jobs' = jobs /\ \E e \in Entities : devEvt[e] /\ ~devEvt'[e]

\* C25, as stated: every write to a coordinator pointer or a membership list is
\* made while the topology lock is held for the writer, in the event handler, in
\* join, unjoin and restore, and in the unreachable reset of update().
C25_WritesUnderLock ==
    [][TopologyWrite => LockedHandler \/ \E t \in Tasks : LockedJob(t)]_vars

\* The same for every write but the unreachable reset of update().
C25_AllButReset ==
    [][TopologyWrite /\ available' = available
       => LockedHandler \/ \E t \in Tasks : LockedJob(t)]_vars

\* A pointer was written by the unreachable reset while a service call held the
\* lock.
C25_ResetUnderForeignLock ==
    \E e \in Entities, t \in Tasks :
        /\ lock = t /\ tasks[t].pc = "exec"
        /\ ~available[e] /\ coordinator[e] = None /\ devCoord[e] # e

\* The target groups of call t are there, as _test_groups finds them.
Matched(t) == _test_groups(sonos_group, tasks[t].groups) = "true"

\* The step has the timer of call t fire, with the lock free or not.
TimerFires(t) ==
    /\ tasks[t].pc \in {"waiting", "woken"}
    /\ tasks'[t].pc = "timedout" \/ tasks'[t].how = "timeout"

\* C26, as stated: every change of a membership list notifies all waiters before
\* the lock is released, a waiter tests all its target groups under the lock
\* before each wait and after each notification, and so a wait whose target
\* groups are there before the timeout, and stay, ends by convergence and not by
\* the timeout.
C26_ConvergesWhenMatched ==
    [][/\ sonos_group' # sonos_group
          => \A t \in Tasks : tasks[t].pc \in {"waiting", "woken"} => tasks'[t].pc = "woken"
       /\ \A t \in Tasks : TimerFires(t) => ~Matched(t)]_vars

\* C26, amended: every change of a membership list notifies all waiters in the
\* handler that made it, and a waiter tests all its target groups under the lock
\* before each wait and after each notification; so no waiter is ever left
\* waiting, unnotified, while its target groups are there, and a wait ends by
\* convergence only on a passing test. A notified waiter still has to take the
\* lock again, and the timeout may fire before it does: the wait then ends by the
\* timeout although the target groups are there.
C26_NoMissedWakeup ==
    [][/\ sonos_group' # sonos_group
          => \A t \in Tasks : tasks[t].pc \in {"waiting", "woken"} => tasks'[t].pc = "woken"
       /\ \A t \in Tasks : tasks'[t].pc = "waiting" => ~Matched(t)'
       /\ \A t \in Tasks : Converges(t) => Matched(t)']_vars

\* A notified waiter whose target groups are there and which has not run yet.
C26_Witness ==
    \E t \in Tasks : tasks[t].pc = "woken" /\ Matched(t) /\ tasks[t].by # <<>>

\* The timer of a wait fired while its target groups were there and another
\* service call held the lock the notified waiter was queueing for.
C26_TimedOutWhileMatched ==
    \E t, u \in Tasks :
        /\ tasks[t].pc = "timedout" /\ Matched(t) /\ tasks[t].by # <<>>
        /\ lock = u /\ tasks[u].pc = "exec"

\* The target groups the predicate is tried on: every list of one to NumEntities
\* different entities, in every order, and every sequence of at most two of them.
TargetGroups ==
    {g \in UNION {[1..n -> Entities] : n \in 1..NumEntities} :
        \A i, j \in DOMAIN g : i # j => g[i] # g[j]}

TargetLists == {<<>>} \cup {<<g>> : g \in TargetGroups}
               \cup {<<g, h>> : g \in TargetGroups, h \in TargetGroups}

\* C27: the convergence predicate is true exactly when, for every target group,
\* the group's first entity heads its own live list and the other target
\* entities are, as a set, the other live members; with no target group at all
\* wait_for_groups goes on at once without waiting.
C27_Predicate ==
    /\ [](\A groups \in TargetLists :
             _test_groups(sonos_group, groups) = "true"
             <=> \A i \in DOMAIN groups :
                    /\ sonos_group[groups[i][1]][1] = groups[i][1]
                    /\ SeqToSet(Tail(groups[i])) = SeqToSet(Tail(sonos_group[groups[i][1]])))
    /\ [][\A t \in Tasks :
             RestoreGroupsStep(t) /\ tasks'[t].groups = <<>>
             => tasks'[t].pc = "restoring" /\ tasks'[t].how = "converged"]_vars

\* A restore without target groups went on at once, in a topology where the
\* predicate finds [1, 3, 2] there and [1, 3] not.
C27_Witness ==
    \E t \in Tasks :
        /\ tasks[t].op = "restore" /\ tasks[t].groups = <<>>
        /\ tasks[t].pc = "restoring" /\ tasks[t].log # <<>>
        /\ sonos_group[1] = <<1, 2, 3>>
        /\ _test_groups(sonos_group, << <<1, 3, 2>> >>) = "true"
        /\ _test_groups(sonos_group, << <<1, 3>> >>) = "false"

\* The faulted commands of the executor job that service call t runs in this step.
FaultedNow(t) ==
    LET log == tasks'[t].log
        from == IF tasks[t].pc = "restoring" THEN Len(tasks[t].log) + 1 ELSE 1
    IN  {log[i] : i \in {k \in from..Len(log) : ~log[k].ok}}

\* The wrapper swallows the ignorable codes of the playback commands unlogged,
\* logs every other fault, and returns normally in both cases.
SwallowedOrLogged ==
    \A funct \in WrappedCommands, fault \in DeviceFaults :
        LET r == soco_error(ErrorCodes(funct), fault)
        IN  /\ ~r.raised
            /\ r.logged <=> ~(funct \in IgnoringCommands /\ fault \in {"701", "711", "712"})

\* The fields of entity e are what they were.
LocalUnchanged(e) ==
    /\ coordinator'[e] = coordinator[e] /\ sonos_group'[e] = sonos_group[e]
    /\ soco_snapshot'[e] = soco_snapshot[e] /\ snapshot_group'[e] = snapshot_group[e]

\* C28, as stated: an ignorable fault (701, 711, 712) of play, pause, stop, next,
\* previous, seek or set-shuffle is swallowed unlogged, any other fault of a
\* wrapped command is logged, and in both cases the call returns normally and
\* leaves the locally recorded state of the device as it was.
C28_FaultLeavesState ==
    /\ [](SwallowedOrLogged)
    /\ [][\A t \in Tasks :
             CommandStep(t) => \A c \in FaultedNow(t) : LocalUnchanged(c.ent)]_vars

\* The same with the local state asked only of faulted pause, unjoin and join
\* commands: a faulted snapshot and a faulted restore do write.
C28_UnlessSnapshotOrRestore ==
    /\ [](SwallowedOrLogged)
    /\ [][\A t \in Tasks :
             CommandStep(t)
             => \A c \in FaultedNow(t) :
                   c.cmd \in {"pause", "unjoin", "join"} => LocalUnchanged(c.ent)]_vars

\* A join command faulted and the entity kept its pointer.
C28_FaultedJoin ==
    \E t \in Tasks :
        /\ tasks[t].op = "join"
        /\ \E i \in DOMAIN tasks[t].log :
              /\ tasks[t].log[i].cmd = "join" /\ ~tasks[t].log[i].ok
              /\ coordinator[tasks[t].log[i].ent] = tasks[t].pre.coordinator[tasks[t].log[i].ent]

\* The step has service call t return from wait_for_groups.
WaitReturns(t) ==
    /\ tasks[t].how = ""
    /\ tasks'[t].how \in {"converged", "timeout"}

\* C29: on every return of wait_for_groups, by convergence, by the timeout or at
\* once when there is no target group, the cached topology of every registered
\* player has been cleared.
C29_ClearedOnReturn ==
    [][\A t \in Tasks :
          WaitReturns(t) => \A e \in Entities : zgs_cache'[e] = <<>>]_vars

\* No cache holds a polled topology when wait_for_groups returns without having
\* had a target group. This is violated: the clearing on that return does work.
C29_FilledBeforeReturn ==
    [][\A t \in Tasks :
          WaitReturns(t) /\ tasks'[t].groups = <<>>
          => \A e \in Entities : zgs_cache[e] = <<>>]_vars

\* A restore without target groups is past its wait_for_groups, with every cache
\* empty, after a notification without member list was answered by a poll.
C29_Witness ==
    \E t \in Tasks :
        /\ tasks[t].op = "restore" /\ tasks[t].groups = <<>>
        /\ tasks[t].pc = "restoring" /\ tasks[t].how = "converged"
        /\ \A e \in Entities : zgs_cache[e] = <<>>
        /\ \E e \in Entities : ~devEvt[e] /\ sonos_group[e] = <<e>> /\ devCoord[e] = e
                                /\ e \in {1, 2}

\* C30, as stated: coordinator pointers never chain: in every reachable state,
\* an entity whose pointer names another entity names one whose own pointer is
\* nil, after any joins, unjoins, restores and topology reports.
C30_NoChain ==
    \A d \in Entities, c \in Entities :
        coordinator[d] = c => coordinator[c] = None

\* A notification of the topology channel reaches entity e in this step.
TopologyNotified(e) == devEvt[e] /\ ~devEvt'[e] /\ subscriptions[e]

\* update() finds entity e back on the network and subscribes again in this step.
Resubscribed(e) == ~available[e] /\ available'[e] /\ subscriptions'[e]

\* C31: the flag that tells whether an entity receives events is set only by a
\* notification of the topology channel and cleared only by a subscription after
\* the player came back; every other step, transport and volume notifications
\* included, leaves it as it is, and an available, reachable entity whose flag is
\* not set polls on its refresh cycle.
C31_FlagChanges ==
    /\ [][\A e \in Entities :
             /\ ~receives_events[e] /\ receives_events'[e] => TopologyNotified(e)
             /\ receives_events[e] /\ ~receives_events'[e] => Resubscribed(e)]_vars
    /\ [](\A e \in Entities :
             available[e] /\ reachable[e] /\ ~receives_events[e] => WouldPoll(e))

\* An entity that came back has since had a transport notification (TV) and a
\* volume, its flag is still not set, and its refresh cycle polls.
C31_Witness ==
    \E e \in Entities :
        /\ available[e] /\ reachable[e] /\ ~receives_events[e]
        /\ source_name[e] = "TV" /\ player_volume[e] = 40
        /\ WouldPoll(e)

\* The positions a player may report for a track.
ReportedPositions == {_timespan_secs(in.rel) : in \in {i \in MediaInputs : i.kind = "music"}}

\* update_media_music would take the difference of the clock and the timestamp
\* of entity e when the player reports position rel_time.
ReadsTimestamp(e, rel_time) == rel_time # Null /\ media_position[e] # Null

\* C32: in every reachable state an entity whose recorded position is present
\* has a recorded timestamp as well, after any track, radio and line-in updates
\* and resets of an unreachable player; so the drift computation, whatever
\* position the player reports next, never reads a missing timestamp.
C32_PositionHasTimestamp ==
    \A e \in Entities :
        /\ media_position[e] # Null => media_position_updated_at[e] # Null
        /\ \A rel_time \in ReportedPositions :
               ReadsTimestamp(e, rel_time) => media_position_updated_at[e] # Null

\* An entity that was reset and found again has recorded a position and its
\* timestamp from a track update since, at a time after the start.
C32_Witness ==
    \E e \in Entities :
        /\ budget.outages < MaxOutages /\ available[e] /\ ~receives_events[e]
        /\ media_position[e] # Null /\ media_position_updated_at[e] > 0
        /\ media_title[e] = "Song"

====
